---- MODULE Spec2Model ----
(***************************************************************************)
(* abs-autoconverter: the conversion rule engine (conversionUtils.ts) and  *)
(* the bounded dispatch queue of SocketClient (index.ts).                  *)
(*                                                                         *)
(* A JavaScript string is a sequence of one-character strings, so that     *)
(* split, trim, toLowerCase, parseInt and toString are computed on the     *)
(* characters.  The value undefined is the one-element sequence Undefined, *)
(* which no string equals, since its element is not a single character.    *)
(***************************************************************************)
EXTENDS Integers, Sequences, FiniteSets, TLC

-----------------------------------------------------------------------------
(* JavaScript string primitives *)

Undefined == <<"undefined">>

\* JS truthiness of a value that is a string or undefined
Truthy(s) == s # Undefined /\ s # <<>>

Digits == <<"0", "1", "2", "3", "4", "5", "6", "7", "8", "9">>

UpperChars == <<"A", "B", "C", "D", "E", "F", "G", "H", "I", "J", "K", "L", "M",
                "N", "O", "P", "Q", "R", "S", "T", "U", "V", "W", "X", "Y", "Z">>

LowerChars == <<"a", "b", "c", "d", "e", "f", "g", "h", "i", "j", "k", "l", "m",
                "n", "o", "p", "q", "r", "s", "t", "u", "v", "w", "x", "y", "z">>

IsDigit(c) == \E i \in 1..Len(Digits) : Digits[i] = c

DigitVal(c) == (CHOOSE i \in 1..Len(Digits) : Digits[i] = c) - 1

IsSpace(c) == c \in {" ", "\t", "\n", "\r"}

lowerChar(c) ==
    IF \E i \in 1..Len(UpperChars) : UpperChars[i] = c
    THEN LowerChars[CHOOSE i \in 1..Len(UpperChars) : UpperChars[i] = c]
    ELSE c

\* String.prototype.toLowerCase
toLowerCase(s) == [i \in 1..Len(s) |-> lowerChar(s[i])]

RECURSIVE trimStart(_)
trimStart(s) ==
    IF s # <<>> /\ IsSpace(Head(s)) THEN trimStart(Tail(s)) ELSE s

RECURSIVE trimEnd(_)
trimEnd(s) ==
    IF s # <<>> /\ IsSpace(s[Len(s)]) THEN trimEnd(SubSeq(s, 1, Len(s) - 1)) ELSE s

\* String.prototype.trim
trim(s) == trimEnd(trimStart(s))

\* String.prototype.split with a one-character separator: "" splits to [""]
RECURSIVE split(_, _)
split(s, sep) ==
    IF \A i \in 1..Len(s) : s[i] # sep
    THEN <<s>>
    ELSE LET k == CHOOSE i \in 1..Len(s) :
                      s[i] = sep /\ \A j \in 1..(i - 1) : s[j] # sep
         IN  <<SubSeq(s, 1, k - 1)>> \o split(SubSeq(s, k + 1, Len(s)), sep)

\* array destructuring: a missing element is undefined
At(parts, i) == IF i <= Len(parts) THEN parts[i] ELSE Undefined

\* a JS number that may be NaN
NaN == [nan |-> TRUE, val |-> 0]

Num(n) == [nan |-> FALSE, val |-> n]

RECURSIVE digitsValue(_, _)
digitsValue(s, acc) ==
    IF s # <<>> /\ IsDigit(Head(s))
    THEN digitsValue(Tail(s), 10 * acc + DigitVal(Head(s)))
    ELSE acc

\* parseInt(s): leading whitespace skipped, optional sign, the leading run of
\* decimal digits; NaN when there is none (also for undefined)
parseInt(s) ==
    IF s = Undefined THEN NaN
    ELSE LET t    == trimStart(s)
             neg  == t # <<>> /\ Head(t) = "-"
             body == IF t # <<>> /\ Head(t) \in {"-", "+"} THEN Tail(t) ELSE t
         IN  IF body # <<>> /\ IsDigit(Head(body))
             THEN Num(IF neg THEN 0 - digitsValue(body, 0) ELSE digitsValue(body, 0))
             ELSE NaN

\* x >= n and x <= n for a number x and a possibly-NaN n: false on NaN
GreaterEq(x, n) == ~n.nan /\ x >= n.val

LessEq(x, n) == ~n.nan /\ x <= n.val

\* Number.prototype.toString of a non-negative integer
RECURSIVE toString(_)
toString(n) ==
    IF n < 10 THEN <<Digits[n + 1]>>
    ELSE toString(n \div 10) \o <<Digits[(n % 10) + 1]>>

\* String.prototype.startsWith
startsWith(s, prefix) ==
    Len(prefix) <= Len(s) /\ SubSeq(s, 1, Len(prefix)) = prefix

\* String.prototype.substring(start), start counted from 0
substring(s, start) == SubSeq(s, start + 1, Len(s))

\* String.prototype.includes
includesText(s, part) ==
    \E i \in 0..(Len(s) - Len(part)) : SubSeq(s, i + 1, i + Len(part)) = part

-----------------------------------------------------------------------------
(* JSON values, JSON.parse and JSON.stringify *)

\* a JavaScript value read from JSON: one record shape for every type
JValue(t, s, n, a, o) == [t |-> t, s |-> s, n |-> n, a |-> a, o |-> o]

JUndefined == JValue("undefined", <<>>, 0, <<>>, <<>>)

JNull == JValue("null", <<>>, 0, <<>>, <<>>)

JTrue == JValue("true", <<>>, 0, <<>>, <<>>)

JFalse == JValue("false", <<>>, 0, <<>>, <<>>)

JString(s) == JValue("string", s, 0, <<>>, <<>>)

JNumber(n) == JValue("number", <<>>, n, <<>>, <<>>)

JArray(a) == JValue("array", <<>>, 0, a, <<>>)

\* an object: its members [key, val] in the order of the text
JObject(o) == JValue("object", <<>>, 0, <<>>, o)

\* truthiness of a value
JTruthy(v) ==
    /\ v.t \notin {"undefined", "null", "false"}
    /\ ~(v.t = "number" /\ v.n = 0)
    /\ ~(v.t = "string" /\ v.s = <<>>)

\* v?.key, for the keys the program reads (id, action, data, libraryItemId),
\* which only an object can have; of a repeated key the last member counts
JGet(v, key) ==
    IF v.t = "object" /\ \E i \in 1..Len(v.o) : v.o[i].key = key
    THEN LET last == CHOOSE i \in 1..Len(v.o) :
                         v.o[i].key = key /\ \A j \in (i + 1)..Len(v.o) : v.o[j].key # key
         IN  v.o[last].val
    ELSE JUndefined

\* a[i], i counted from 0
JAt(v, i) == IF v.t = "array" /\ i < Len(v.a) THEN v.a[i + 1] ELSE JUndefined

Quote == "\""

JFail == [ok |-> FALSE, val |-> JUndefined, rest |-> <<>>]

JDone(val, rest) == [ok |-> TRUE, val |-> val, rest |-> rest]

\* the length of the leading run of digits
RECURSIVE digitsRun(_)
digitsRun(s) == IF s # <<>> /\ IsDigit(Head(s)) THEN 1 + digitsRun(Tail(s)) ELSE 0

\* the JSON grammar over texts without escape sequences, signs, fractions and
\* exponents: strings, non-negative integers, true, false, null, arrays,
\* objects, with whitespace between the tokens
RECURSIVE parseValue(_)
RECURSIVE parseElements(_, _)
RECURSIVE parseMembers(_, _)
parseValue(text) ==
    LET s == trimStart(text) IN
    IF s = <<>> THEN JFail
    ELSE IF Head(s) = Quote
    THEN LET t == Tail(s) IN
         IF \A i \in 1..Len(t) : t[i] # Quote THEN JFail
         ELSE LET k == CHOOSE i \in 1..Len(t) :
                           t[i] = Quote /\ \A j \in 1..(i - 1) : t[j] # Quote
              IN  JDone(JString(SubSeq(t, 1, k - 1)), SubSeq(t, k + 1, Len(t)))
    ELSE IF Head(s) = "0" THEN JDone(JNumber(0), Tail(s))
    ELSE IF IsDigit(Head(s))
    THEN LET k == digitsRun(s) IN
         JDone(JNumber(digitsValue(SubSeq(s, 1, k), 0)), SubSeq(s, k + 1, Len(s)))
    ELSE IF startsWith(s, <<"n", "u", "l", "l">>) THEN JDone(JNull, substring(s, 4))
    ELSE IF startsWith(s, <<"t", "r", "u", "e">>) THEN JDone(JTrue, substring(s, 4))
    ELSE IF startsWith(s, <<"f", "a", "l", "s", "e">>) THEN JDone(JFalse, substring(s, 5))
    ELSE IF Head(s) = "["
    THEN LET t == trimStart(Tail(s)) IN
         IF t # <<>> /\ Head(t) = "]" THEN JDone(JArray(<<>>), Tail(t))
         ELSE parseElements(t, <<>>)
    ELSE IF Head(s) = "{"
    THEN LET t == trimStart(Tail(s)) IN
         IF t # <<>> /\ Head(t) = "}" THEN JDone(JObject(<<>>), Tail(t))
         ELSE parseMembers(t, <<>>)
    ELSE JFail

\* the elements of an array, after "[" or ","
parseElements(text, acc) ==
    LET v == parseValue(text)
        r == trimStart(v.rest)
    IN  IF ~v.ok \/ r = <<>> THEN JFail
        ELSE IF Head(r) = "," THEN parseElements(Tail(r), Append(acc, v.val))
        ELSE IF Head(r) = "]" THEN JDone(JArray(Append(acc, v.val)), Tail(r))
        ELSE JFail

\* the members of an object, after "{" or ","
parseMembers(text, acc) ==
    LET k == parseValue(text)
        r == trimStart(k.rest)
    IN  IF ~k.ok \/ k.val.t # "string" \/ r = <<>> \/ Head(r) # ":" THEN JFail
        ELSE LET v      == parseValue(Tail(r))
                 q      == trimStart(v.rest)
                 member == [key |-> k.val.s, val |-> v.val]
             IN  IF ~v.ok \/ q = <<>> THEN JFail
                 ELSE IF Head(q) = "," THEN parseMembers(Tail(q), Append(acc, member))
                 ELSE IF Head(q) = "}" THEN JDone(JObject(Append(acc, member)), Tail(q))
                 ELSE JFail

\* JSON.parse: threw is the SyntaxError
JSONparse(text) ==
    LET v == parseValue(text) IN
    IF v.ok /\ trimStart(v.rest) = <<>>
    THEN [threw |-> FALSE, val |-> v.val]
    ELSE [threw |-> TRUE, val |-> JUndefined]

\* JSON.stringify of an array of strings without characters to escape
RECURSIVE stringifyItems(_)
stringifyItems(items) ==
    IF items = <<>> THEN <<>>
    ELSE <<Quote>> \o Head(items) \o <<Quote>>
         \o (IF Len(items) > 1 THEN <<",">> ELSE <<>>) \o stringifyItems(Tail(items))

JSONstringify(items) == <<"[">> \o stringifyItems(items) \o <<"]">>

-----------------------------------------------------------------------------
(* conversionUtils.ts *)

\* ConversionProfile | null: null is a profile no parse produces
Null == [codec |-> <<"null">>, bitrate |-> <<"null">>, channels |-> <<"null">>]

Profile(codec, bitrate, channels) ==
    [codec |-> codec, bitrate |-> bitrate, channels |-> channels]

FallbackKey == <<"0", "|", "0", "|", "0", "|", "0", "|", "0">>

copy == <<"c", "o", "p", "y">>

\* ConversionMatrix = Map<string, ConversionProfile>: the entries in insertion
\* order.  Map.set on a present key replaces the value and keeps the position.
MapHas(map, key) == \E i \in 1..Len(map) : map[i].condition = key

MapSet(map, key, value) ==
    IF MapHas(map, key)
    THEN [i \in 1..Len(map) |->
            IF map[i].condition = key
            THEN [condition |-> key, profile |-> value]
            ELSE map[i]]
    ELSE Append(map, [condition |-> key, profile |-> value])

MapGet(map, key) ==
    IF MapHas(map, key)
    THEN map[CHOOSE i \in 1..Len(map) : map[i].condition = key].profile
    ELSE Null

\* FallbackKeyFor storing the entry under its own text, as an explicit rule is
FallbackKeyOwnText(condition) == trim(condition)

\* the key a bare fallback entry is stored under
FallbackKeyFor(condition) == FallbackKey

\* the loop body of parseConversionMatrix over the remaining rules; threw is
\* the TypeError of undefined.trim() on an action with fewer than three fields
RECURSIVE parseRules(_, _)
parseRules(rules, map) ==
    IF rules = <<>> THEN [threw |-> FALSE, map |-> map]
    ELSE
      LET rule      == Head(rules)
          sides     == split(rule, "=")
          condition == At(sides, 1)
          result    == At(sides, 2)
      IN
      IF Truthy(condition) /\ Truthy(result)
      THEN LET f        == split(result, "|")
               codec    == At(f, 1)
               bitrate  == At(f, 2)
               channels == At(f, 3)
           IN  IF bitrate = Undefined \/ channels = Undefined
               THEN [threw |-> TRUE, map |-> map]
               ELSE parseRules(Tail(rules),
                        MapSet(map, trim(condition),
                               Profile(trim(codec), trim(bitrate), trim(channels))))
      ELSE IF Truthy(condition) /\ ~Truthy(result)
      THEN LET f        == split(condition, "|")
               codec    == At(f, 1)
               bitrate  == At(f, 2)
               channels == At(f, 3)
           IN  IF Truthy(codec) /\ Truthy(bitrate) /\ Truthy(channels)
               THEN parseRules(Tail(rules),
                        MapSet(map, FallbackKeyFor(condition),
                               Profile(trim(codec), trim(bitrate), trim(channels))))
               ELSE parseRules(Tail(rules), map)
      ELSE parseRules(Tail(rules), map)

parseConversionMatrix(matrixStr) ==
    IF matrixStr = <<>> THEN [threw |-> FALSE, map |-> <<>>]
    ELSE parseRules(split(matrixStr, ","), <<>>)

\* RuleMatches with the bounds excluded
RuleMatchesStrict(condition, inputCodec, inputBitrate, inputChannels) ==
    LET c == split(condition, "|")
        condCodec        == At(c, 1)
        condFromBitrate  == At(c, 2)
        condToBitrate    == At(c, 3)
        condFromChannels == At(c, 4)
        condToChannels   == At(c, 5)
    IN  /\ (toLowerCase(condCodec) = toLowerCase(inputCodec) \/ condCodec = <<"0">>)
        /\ (condFromBitrate = <<"0">> \/
                (~parseInt(condFromBitrate).nan /\ inputBitrate > parseInt(condFromBitrate).val))
        /\ (condToBitrate = <<"0">> \/
                (~parseInt(condToBitrate).nan /\ inputBitrate < parseInt(condToBitrate).val))
        /\ (condFromChannels = <<"0">> \/
                (~parseInt(condFromChannels).nan /\ inputChannels > parseInt(condFromChannels).val))
        /\ (condToChannels = <<"0">> \/
                (~parseInt(condToChannels).nan /\ inputChannels < parseInt(condToChannels).val))

\* the condition of the if inside the loop of findConversion
RuleMatches(condition, inputCodec, inputBitrate, inputChannels) ==
    LET c == split(condition, "|")
        condCodec        == At(c, 1)
        condFromBitrate  == At(c, 2)
        condToBitrate    == At(c, 3)
        condFromChannels == At(c, 4)
        condToChannels   == At(c, 5)
    IN  /\ (toLowerCase(condCodec) = toLowerCase(inputCodec) \/ condCodec = <<"0">>)
        /\ (condFromBitrate = <<"0">> \/ GreaterEq(inputBitrate, parseInt(condFromBitrate)))
        /\ (condToBitrate = <<"0">> \/ LessEq(inputBitrate, parseInt(condToBitrate)))
        /\ (condFromChannels = <<"0">> \/ GreaterEq(inputChannels, parseInt(condFromChannels)))
        /\ (condToChannels = <<"0">> \/ LessEq(inputChannels, parseInt(condToChannels)))

\* Resolve keeping the action's own bitrate and channels
ResolveOwnFields(resultProfile, inputCodec, inputBitrate, inputChannels) ==
    IF toLowerCase(resultProfile.codec) = copy
    THEN Profile(inputCodec, resultProfile.bitrate, resultProfile.channels)
    ELSE resultProfile

\* what findConversion returns for a selected profile: the copy resolution
Resolve(resultProfile, inputCodec, inputBitrate, inputChannels) ==
    IF toLowerCase(resultProfile.codec) = copy
    THEN Profile(inputCodec, toString(inputBitrate), toString(inputChannels))
    ELSE resultProfile

\* the for loop of findConversion from entry i on, then the fallback lookup
RECURSIVE findFrom(_, _, _, _, _)
findFrom(matrix, i, inputCodec, inputBitrate, inputChannels) ==
    IF i > Len(matrix)
    THEN LET fallbackProfile == MapGet(matrix, FallbackKey)
         IN  IF fallbackProfile # Null
             THEN Resolve(fallbackProfile, inputCodec, inputBitrate, inputChannels)
             ELSE Null
    ELSE IF RuleMatches(matrix[i].condition, inputCodec, inputBitrate, inputChannels)
         THEN Resolve(matrix[i].profile, inputCodec, inputBitrate, inputChannels)
         ELSE findFrom(matrix, i + 1, inputCodec, inputBitrate, inputChannels)

findConversion(matrix, inputCodec, inputBitrate, inputChannels) ==
    findFrom(matrix, 1, inputCodec, inputBitrate, inputChannels)

-----------------------------------------------------------------------------
(* config.ts (the second half of src/src/conversionUtils.ts) *)

mp3 == <<"m", "p", "3">>

MP3 == <<"M", "P", "3">>

aac == <<"a", "a", "c">>

AAC == <<"A", "A", "C">>

opus == <<"o", "p", "u", "s">>

Opus == <<"O", "p", "u", "s">>

flac == <<"f", "l", "a", "c">>

\* process.env.EXCLUDED_CODECS, here "Opus,aac"
EXCLUDED_CODECS_ENV == Opus \o <<",">> \o aac

\* (process.env.EXCLUDED_CODECS || "opus").toLowerCase().split(",")
EXCLUDED_CODECS ==
    split(toLowerCase(IF Truthy(EXCLUDED_CODECS_ENV) THEN EXCLUDED_CODECS_ENV ELSE opus), ",")

\* Array.prototype.includes
includes(array, x) == \E i \in 1..Len(array) : array[i] = x

-----------------------------------------------------------------------------
(* Bounds *)

\* rule-table texts hold up to MaxRules items
MaxRules == 2

\* input bitrates and bitrate bounds range over 0..MaxBitrate
MaxBitrate == 11

\* input channel counts and channel bounds range over 0..MaxChannels
MaxChannels == 2

\* item_added events delivered over a run
MaxAdds == 3

\* entries of the initial queue of the drain scenario
MaxQueue == 3

\* the concurrency limit ranges over 1..MaxParallel
MaxParallel == 2

MaxTimers == 2

MaxScans == 2

MaxLibraries == 2

MaxItems == 2

\* the frames sent on one socket before the server stops pinging it
MaxSent == 4

-----------------------------------------------------------------------------
(* Rule-table texts *)

Bar == <<"|">>

Action(codec, bitrate, channels) == codec \o Bar \o bitrate \o Bar \o channels

Condition(codec, fromBitrate, toBitrate, fromChannels, toChannels) ==
    codec \o Bar \o toString(fromBitrate) \o Bar \o toString(toBitrate)
          \o Bar \o toString(fromChannels) \o Bar \o toString(toChannels)

Rule(condition, action) == condition \o <<"=">> \o action

\* the items the rule-table texts are built from
RulePool ==
    << Rule(Condition(mp3, 1, 2, 1, 1), Action(opus, toString(24), toString(1))),
       Rule(Condition(mp3, 1, 2, 1, 1), Action(aac, toString(9), toString(2))),
       Rule(Condition(<<"0">>, 0, 0, 0, 0), Action(opus, toString(64), toString(2))),
       Action(aac, toString(64), toString(2)),
       Rule(Condition(MP3, 0, 10, 2, 0), Action(<<"C", "o", "p", "y">>, toString(5), toString(5))),
       Action(copy, toString(0), toString(0)),
       <<" ">> \o Rule(Condition(aac, 2, 0, 0, 2) \o <<" ">>,
                       <<" ">> \o Action(opus \o <<" ">>, <<" ">> \o toString(7), toString(2))),
       Rule(flac, opus) >>

RECURSIVE JoinRules(_)
JoinRules(items) ==
    IF Len(items) = 1 THEN RulePool[items[1]]
    ELSE RulePool[items[1]] \o <<",">> \o JoinRules(Tail(items))

PoolTexts ==
    { JoinRules(items) :
        items \in UNION { [1..n -> 1..Len(RulePool)] : n \in 1..MaxRules } }

\* the table of one rule with bitrate bounds [L, H], any codec, any channels
BitrateBoundText ==
    [L \in 0..MaxBitrate, H \in 0..MaxBitrate |->
        Rule(Condition(<<"0">>, L, H, 0, 0), Action(opus, toString(1), toString(1)))]

\* the table of one rule with channel bounds [L, H], any codec, any bitrate
ChannelBoundText ==
    [L \in 0..MaxChannels, H \in 0..MaxChannels |->
        Rule(Condition(<<"0">>, 0, 0, L, H), Action(opus, toString(1), toString(1)))]

RuleTableTexts ==
    PoolTexts
    \cup { BitrateBoundText[L, H] : L \in 0..MaxBitrate, H \in 0..MaxBitrate }
    \cup { ChannelBoundText[L, H] : L \in 0..MaxChannels, H \in 0..MaxChannels }

InputCodecs == {mp3, AAC}

\* the rule table of the dispatch scenarios: mp3 is copied, nothing else matches
DispatchMatrix == Rule(Condition(mp3, 0, 0, 0, 0), Action(copy, toString(0), toString(0)))

-----------------------------------------------------------------------------
(* The wire protocol (index.ts): frames are texts *)

ENGINE_IO_PACKET_OPEN == <<"0">>

ENGINE_IO_PACKET_PING == <<"2">>

ENGINE_IO_PACKET_PONG == <<"3">>

ENGINE_IO_PACKET_MESSAGE == <<"4">>

SOCKET_IO_MSG_CONNECT == <<"0">>

SOCKET_IO_MSG_EVENT == <<"2">>

SOCKET_IO_MSG_DISCONNECT_NAMESPACE == <<"1">>

ABS_TOKEN == <<"t">>

auth == <<"a", "u", "t", "h">>

\* `${ENGINE_IO_PACKET_MESSAGE}${SOCKET_IO_MSG_CONNECT}`
NamespaceConnectFrame == ENGINE_IO_PACKET_MESSAGE \o SOCKET_IO_MSG_CONNECT

\* `${ENGINE_IO_PACKET_MESSAGE}${SOCKET_IO_MSG_DISCONNECT_NAMESPACE}`
NamespaceDisconnectFrame == ENGINE_IO_PACKET_MESSAGE \o SOCKET_IO_MSG_DISCONNECT_NAMESPACE

\* the message of sendSocketIoEvent(eventName, payload) for a string payload
EventFrame(eventName, payload) ==
    ENGINE_IO_PACKET_MESSAGE \o SOCKET_IO_MSG_EVENT \o JSONstringify(<<eventName, payload>>)

AuthFrame == EventFrame(auth, ABS_TOKEN)

-----------------------------------------------------------------------------
(* State *)

VARIABLES
    matrixStr,            \* CONVERSION_MATRIX_STRING
    conversionMatrix,     \* this.conversionMatrix: what parseConversionMatrix returned
    lookup,               \* the findConversion call of the rule-engine scenario
    MAX_PARALLEL,         \* the concurrency limit
    DRY_RUN,              \* drain-then-exit mode
    EMBED_METADATA,       \* the metadata-embed toggle
    ENCODE_LIBRARY,       \* the scan-on-start toggle
    encodingQueue,        \* this.encodingQueue
    runningEncodings,     \* this.runningEncodings
    attempts,             \* the processEncodingQueue calls suspended at an await
    lastFetch,            \* what the latest attempt resumed from getItemDetails did
    settleTimers,         \* pending setTimeout(processEncodingQueue, CONVERSION_DELAY)
    embedTimers,          \* pending setTimeout(embedMetadata, 60000)
    serverTasks,          \* encoding jobs running on the server
    taskFinishedEvents,   \* task_finished events sent by the server, not yet handled
    taskFinishedHandled,  \* whether a task_finished event has been handled
    itemsAdded,           \* item_added events handled
    exited,               \* process.exit was called
    ws,                   \* this.ws: "null", or the state of the socket it refers to
    handshake,            \* namespace-connect on that socket: "no", "sent", "acked"
    openTimers,           \* pending setTimeout(send namespace-connect, 1000)
    reconnectTimeout,     \* this.reconnectTimeout: a timer id, or 0 for null
    reconnectTimers,      \* the ids of the pending setTimeout(connect, RECONNECT_DELAY_MS)
    exitTimer,            \* a signal handler's setTimeout(process.exit, 1000) is pending
    initialScanPerformed, \* this.initialScanPerformed
    ackTimers,            \* pending setTimeout(start the scan) of an acknowledgement
    scans,                \* the performInitialLibraryScan calls suspended at an await
    scanTimers,           \* pending setTimeout(fill the slots, delay) of a scan
    sent,                 \* the frames sent on the socket this.ws refers to
    ignored               \* the latest frame or event onMessage handled without acting, if any

vars == << matrixStr, conversionMatrix, lookup, MAX_PARALLEL, DRY_RUN, EMBED_METADATA,
           encodingQueue, runningEncodings, attempts, lastFetch, settleTimers, embedTimers,
           serverTasks, taskFinishedEvents, taskFinishedHandled, itemsAdded, exited,
           ENCODE_LIBRARY, ws, handshake, openTimers, reconnectTimeout, reconnectTimers,
           exitTimer, initialScanPerformed, ackTimers, scans, scanTimers, sent, ignored >>

configVars == << matrixStr, conversionMatrix, MAX_PARALLEL, DRY_RUN, EMBED_METADATA,
                 ENCODE_LIBRARY >>

sessionVars == << ws, handshake, openTimers, reconnectTimeout, reconnectTimers, exitTimer,
                  sent, ignored >>

scanVars == << initialScanPerformed, ackTimers, scans, scanTimers >>

dispatchVars == << encodingQueue, runningEncodings, attempts, lastFetch, settleTimers,
                   embedTimers, serverTasks, taskFinishedEvents, taskFinishedHandled, itemsAdded, exited >>

ItemIds == {"a", "b"}

\* no attempt has resumed from getItemDetails yet
NoFetch ==
    [codec   |-> Undefined,      \* the codec of the first audio file, if one was fetched
     skipped |-> FALSE,          \* the attempt decremented, recursed and returned
     engine  |-> FALSE,          \* findConversion was called
     profile |-> Null,           \* what findConversion returned
     encode  |-> FALSE]          \* startM4bEncoding was requested

NoLookup == [called |-> FALSE, codec |-> <<>>, bitRate |-> 0, channels |-> 0, result |-> Null]

\* the fields of SocketClient after construction, with nothing scheduled
FreshClient ==
    /\ encodingQueue = <<>>
    /\ runningEncodings = 0
    /\ attempts = <<>>
    /\ lastFetch = NoFetch
    /\ settleTimers = 0
    /\ embedTimers = 0
    /\ serverTasks = 0
    /\ taskFinishedEvents = 0
    /\ taskFinishedHandled = FALSE
    /\ itemsAdded = 0
    /\ exited = FALSE
    /\ reconnectTimeout = 0
    /\ reconnectTimers = {}
    /\ exitTimer = FALSE
    /\ initialScanPerformed = FALSE
    /\ ackTimers = 0
    /\ scans = <<>>
    /\ scanTimers = 0
    /\ openTimers = 0
    /\ ignored = "none"

\* the socket after connect(), onOpen and the namespace-connect frame: events
\* are being received
Established ==
    /\ ws = "OPEN"
    /\ handshake = "acked"
    /\ sent = <<NamespaceConnectFrame, AuthFrame>>

\* sendRawSocketMessage: the message is sent if this.ws is set and open, and
\* an error is logged otherwise
sendRawSocketMessage(message) == IF ws = "OPEN" THEN Append(sent, message) ELSE sent

\* sendSocketIoEvent, with the same test
sendSocketIoEvent(eventName, payload) ==
    IF ws = "OPEN" THEN Append(sent, EventFrame(eventName, payload)) ELSE sent

\* the socket emits "message": it is open, or closing after this.ws.close()
\* ("TERMINATED": destroyed by this.ws.terminate(), its close event to come;
\* "FAILED": destroyed by an error, its close event to come)
Receiving == ws \in {"OPEN", "CLOSING"}

-----------------------------------------------------------------------------
(* Rule-engine scenario: a table is parsed, then findConversion is called *)

InitMatch ==
    /\ matrixStr \in RuleTableTexts
    /\ conversionMatrix = parseConversionMatrix(matrixStr)
    /\ lookup = NoLookup
    /\ MAX_PARALLEL = 1
    /\ DRY_RUN = FALSE
    /\ EMBED_METADATA = FALSE
    /\ ENCODE_LIBRARY = FALSE
    /\ FreshClient
    /\ Established

FindConversionCall(inputCodec, inputBitrate, inputChannels) ==
    /\ ~conversionMatrix.threw
    /\ ~lookup.called
    /\ lookup' = [called   |-> TRUE,
                  codec    |-> inputCodec,
                  bitRate  |-> inputBitrate,
                  channels |-> inputChannels,
                  result   |-> findConversion(conversionMatrix.map, inputCodec,
                                              inputBitrate, inputChannels)]
    /\ UNCHANGED << configVars, dispatchVars, sessionVars, scanVars >>

NextMatch ==
    \E inputCodec \in InputCodecs, inputBitrate \in 0..MaxBitrate, inputChannels \in 0..MaxChannels :
        FindConversionCall(inputCodec, inputBitrate, inputChannels)

SpecMatch == InitMatch /\ [][NextMatch]_vars

-----------------------------------------------------------------------------
(* SocketClient: the dispatch queue (index.ts) *)

\* the client state a call of processEncodingQueue reads and writes
Client ==
    [queue    |-> encodingQueue,
     running  |-> runningEncodings,
     attempts |-> attempts,
     exited   |-> exited]

\* The suspended calls have no order among themselves (each resumes when its
\* own answer arrives): they are kept in one fixed order, by await, then item,
\* then task count, so that one set of suspended calls is one state.
AwaitRank(pc) ==
    IF pc = "getItemDetails" THEN 3
    ELSE IF pc = "startM4bEncoding" THEN 2
    ELSE IF pc = "getTasks" THEN 1
    ELSE 0

ItemRank(id) == IF id = "a" THEN 0 ELSE 1

Before(a, b) ==
    \/ AwaitRank(a.pc) < AwaitRank(b.pc)
    \/ /\ AwaitRank(a.pc) = AwaitRank(b.pc)
       /\ \/ ItemRank(a.item) < ItemRank(b.item)
          \/ ItemRank(a.item) = ItemRank(b.item) /\ a.tasks <= b.tasks

RECURSIVE Insert(_, _)
Insert(seq, a) ==
    IF seq = <<>> THEN <<a>>
    ELSE IF Before(a, Head(seq)) THEN <<a>> \o seq
    ELSE <<Head(seq)>> \o Insert(Tail(seq), a)

RECURSIVE InOrder(_)
InOrder(seq) == IF seq = <<>> THEN <<>> ELSE Insert(InOrder(Tail(seq)), Head(seq))

Commit(c) ==
    /\ encodingQueue' = c.queue
    /\ runningEncodings' = c.running
    /\ attempts' = InOrder(c.attempts)
    /\ exited' = c.exited

\* a call that popped itemId and awaits getItemDetails
NewAttempt(itemId) == [item |-> itemId, pc |-> "getItemDetails", tasks |-> 0]

\* the suspended calls without the n-th, which returned
Without(seq, n) == SubSeq(seq, 1, n - 1) \o SubSeq(seq, n + 1, Len(seq))

\* shutdown(), as processEncodingQueue calls it in drain-then-exit mode: the
\* queue is empty there, so the process exits right after the socket is closed
shutdown(c) ==
    IF c.queue = <<>> THEN [c EXCEPT !.exited = TRUE] ELSE c

\* processEncodingQueue starting an attempt without taking its entry off the queue
processEncodingQueueKeepsHead(c) ==
    IF c.exited THEN c
    ELSE IF c.queue = <<>> THEN (IF DRY_RUN THEN shutdown(c) ELSE c)
    ELSE IF c.running >= MAX_PARALLEL THEN c
    ELSE [c EXCEPT !.running = @ + 1,
                   !.attempts = Append(@, NewAttempt(Head(c.queue)))]

\* processEncodingQueue up to its first await.  The queue holds truthy ids
\* only (both producers test the id), so "if (!itemId) return" is never taken.
processEncodingQueue(c) ==
    IF c.exited THEN c
    ELSE IF c.queue = <<>> THEN (IF DRY_RUN THEN shutdown(c) ELSE c)
    ELSE IF c.running >= MAX_PARALLEL THEN c
    ELSE [c EXCEPT !.queue = Tail(@),
                   !.running = @ + 1,
                   !.attempts = Append(@, NewAttempt(Head(c.queue)))]

\* for (let i = this.runningEncodings; i < MAX_PARALLEL; i++) void this.processEncodingQueue()
RECURSIVE fillSlots(_, _)
fillSlots(c, i) ==
    IF i < MAX_PARALLEL THEN fillSlots(processEncodingQueue(c), i + 1) ELSE c

\* skipAndRecurse decrementing twice
skipDecrementingTwice(c, n) ==
    processEncodingQueue([c EXCEPT !.running = @ - 2, !.attempts = Without(@, n)])

\* skipAndRecurse putting the entry back at the tail of the queue
skipAndRequeue(c, n) ==
    processEncodingQueue([c EXCEPT !.running = @ - 1, !.attempts = Without(@, n),
                                   !.queue = Append(@, c.attempts[n].item)])

\* skipAndRecurse without the recursive call
skipWithoutRecursion(c, n) ==
    [c EXCEPT !.running = @ - 1, !.attempts = Without(@, n)]

\* this.runningEncodings--; void this.processEncodingQueue(); return
\* (every skip, and the catch block), ending attempt n
skipAndRecurse(c, n) ==
    processEncodingQueue([c EXCEPT !.running = @ - 1, !.attempts = Without(@, n)])

\* IsExcluded without lower-casing the fetched codec
IsExcludedCaseSensitive(codec) == includes(EXCLUDED_CODECS, codec)

\* EXCLUDED_CODECS.includes(codec.toLowerCase())
IsExcluded(codec) == includes(EXCLUDED_CODECS, toLowerCase(codec))

\* what getItemDetails can answer: a failure, an item without audio files, or
\* the descriptor of the first audio file
Failure == [kind |-> "fail", codec |-> <<>>, bitRate |-> 0, channels |-> 0]

NoAudioFiles == [kind |-> "noAudio", codec |-> <<>>, bitRate |-> 0, channels |-> 0]

AudioFile(codec, bitRate, channels) ==
    [kind |-> "audio", codec |-> codec, bitRate |-> bitRate, channels |-> channels]

ExcludedAudioFiles ==
    { AudioFile(codec, bitRate, channels) :
        codec \in {opus, Opus, AAC}, bitRate \in {0, MaxBitrate}, channels \in {1, MaxChannels} }

ConvertibleAudioFiles ==
    { AudioFile(codec, MaxBitrate, MaxChannels) : codec \in {mp3, flac} }

\* the answers of the dispatch scenario: each excluded codec once, at bitrates
\* and channel counts from both ends of their ranges
ItemDetails ==
    {Failure, NoAudioFiles}
    \cup {AudioFile(opus, 0, 1), AudioFile(Opus, MaxBitrate, MaxChannels), AudioFile(AAC, 1, MaxChannels)}
    \cup ConvertibleAudioFiles

\* ItemAdded leaving out an id that is in the queue already, as the scan does
ItemAddedDeduplicated(id) ==
    /\ ~exited
    /\ Receiving
    /\ itemsAdded < MaxAdds
    /\ itemsAdded' = itemsAdded + 1
    /\ encodingQueue' = IF includes(encodingQueue, id) THEN encodingQueue
                        ELSE Append(encodingQueue, id)
    /\ settleTimers' = settleTimers + 1
    /\ UNCHANGED << configVars, sessionVars, scanVars, lookup, runningEncodings, attempts, lastFetch, embedTimers,
                    serverTasks, taskFinishedEvents, taskFinishedHandled, exited >>

\* case "item_added" of handleSocketIoEvent, for a payload with an id (without
\* one the handler only logs a warning)
ItemAdded(id) ==
    /\ ~exited
    /\ Receiving
    /\ itemsAdded < MaxAdds
    /\ itemsAdded' = itemsAdded + 1
    /\ encodingQueue' = Append(encodingQueue, id)
    /\ settleTimers' = settleTimers + 1
    /\ UNCHANGED << configVars, sessionVars, scanVars, lookup, runningEncodings, attempts, lastFetch, embedTimers,
                    serverTasks, taskFinishedEvents, taskFinishedHandled, exited >>

\* the settle timer of an item_added event fires: processEncodingQueue()
SettleTimerFires ==
    /\ ~exited
    /\ settleTimers > 0
    /\ settleTimers' = settleTimers - 1
    /\ Commit(processEncodingQueue(Client))
    /\ UNCHANGED << configVars, sessionVars, scanVars, lookup, lastFetch, embedTimers, serverTasks, taskFinishedEvents,
                    taskFinishedHandled, itemsAdded >>

\* attempt n resumes from await getItemDetails with answer d, and runs until
\* its next await or its return
GetItemDetailsReturns(n, d) ==
    /\ ~exited
    /\ n \in 1..Len(attempts)
    /\ attempts[n].pc = "getItemDetails"
    /\ LET failed == [NoFetch EXCEPT !.skipped = TRUE]
           seen   == [failed EXCEPT !.codec = d.codec]
       IN
       IF d.kind = "fail" \/ d.kind = "noAudio"
       THEN /\ Commit(skipAndRecurse(Client, n))
            /\ lastFetch' = failed
       ELSE IF IsExcluded(d.codec)
       THEN /\ Commit(skipAndRecurse(Client, n))
            /\ lastFetch' = seen
       ELSE LET conversionProfile ==
                    findConversion(conversionMatrix.map, d.codec, d.bitRate, d.channels)
                looked == [seen EXCEPT !.engine = TRUE, !.profile = conversionProfile]
            IN  IF conversionProfile = Null
                THEN /\ Commit(skipAndRecurse(Client, n))
                     /\ lastFetch' = looked
                ELSE /\ attempts' = InOrder([attempts EXCEPT ![n].pc = "startM4bEncoding"])
                     /\ lastFetch' = [looked EXCEPT !.skipped = FALSE, !.encode = TRUE]
                     /\ UNCHANGED << encodingQueue, runningEncodings, exited >>
    /\ UNCHANGED << configVars, sessionVars, scanVars, lookup, settleTimers, embedTimers, serverTasks, taskFinishedEvents,
                    taskFinishedHandled, itemsAdded >>

\* attempt n resumes from await startM4bEncoding: the server started the job
\* and the attempt asks for the task count, or the request failed
StartM4bEncodingReturns(n, ok) ==
    /\ ~exited
    /\ n \in 1..Len(attempts)
    /\ attempts[n].pc = "startM4bEncoding"
    /\ IF ok
       THEN /\ serverTasks' = serverTasks + 1
            /\ attempts' = InOrder([attempts EXCEPT ![n].pc = "getTasks"])
            /\ UNCHANGED << encodingQueue, runningEncodings, exited >>
       ELSE /\ Commit(skipAndRecurse(Client, n))
            /\ UNCHANGED serverTasks
    /\ UNCHANGED << configVars, sessionVars, scanVars, lookup, lastFetch, settleTimers, embedTimers, taskFinishedEvents,
                    taskFinishedHandled, itemsAdded >>

\* the server answers the task-list request of attempt n with the tasks it has
\* at that moment; the answer is on its way to the client
ServerListsTasks(n) ==
    /\ n \in 1..Len(attempts)
    /\ attempts[n].pc = "getTasks"
    /\ attempts' = InOrder([attempts EXCEPT ![n].pc = "getTasksAnswered",
                                             ![n].tasks = serverTasks])
    /\ UNCHANGED << configVars, sessionVars, scanVars, lookup, lastFetch, encodingQueue, runningEncodings,
                    settleTimers, embedTimers, serverTasks, taskFinishedEvents,
                    taskFinishedHandled, itemsAdded, exited >>

\* attempt n resumes from await getTasks: the counter is overwritten with the
\* task count of the answer, or the failure is swallowed
GetTasksReturns(n, ok) ==
    /\ ~exited
    /\ n \in 1..Len(attempts)
    /\ IF ok THEN attempts[n].pc = "getTasksAnswered"
             ELSE attempts[n].pc \in {"getTasks", "getTasksAnswered"}
    /\ attempts' = Without(attempts, n)
    /\ runningEncodings' = IF ok THEN attempts[n].tasks ELSE runningEncodings
    /\ UNCHANGED << configVars, sessionVars, scanVars, lookup, lastFetch, encodingQueue, settleTimers, embedTimers, serverTasks,
                    taskFinishedEvents, taskFinishedHandled, itemsAdded, exited >>

\* the server ends an encoding job and emits task_finished (action "encode_m4b")
ServerFinishesTask ==
    /\ serverTasks > 0
    /\ serverTasks' = serverTasks - 1
    /\ taskFinishedEvents' = taskFinishedEvents + 1
    /\ UNCHANGED << configVars, sessionVars, scanVars, lookup, encodingQueue, runningEncodings, attempts,
                    lastFetch, settleTimers, embedTimers, taskFinishedHandled, itemsAdded, exited >>

\* TaskFinished scheduling the embed request whatever EMBED_METADATA is
TaskFinishedEmbedsAnyway(hasItemId) ==
    /\ ~exited
    /\ Receiving
    /\ taskFinishedEvents > 0
    /\ taskFinishedEvents' = taskFinishedEvents - 1
    /\ taskFinishedHandled' = TRUE
    /\ embedTimers' = IF hasItemId THEN embedTimers + 1 ELSE embedTimers
    /\ LET c == [Client EXCEPT !.running = @ - 1]
       IN  Commit(fillSlots(c, c.running))
    /\ UNCHANGED << configVars, sessionVars, scanVars, lookup, lastFetch, settleTimers, serverTasks, itemsAdded >>

\* case "task_finished" of handleSocketIoEvent, for an action containing
\* "encode"; hasItemId: the payload carries data.libraryItemId
TaskFinished(hasItemId) ==
    /\ ~exited
    /\ Receiving
    /\ taskFinishedEvents > 0
    /\ taskFinishedEvents' = taskFinishedEvents - 1
    /\ taskFinishedHandled' = TRUE
    /\ embedTimers' = IF EMBED_METADATA /\ hasItemId THEN embedTimers + 1 ELSE embedTimers
    /\ LET c == [Client EXCEPT !.running = @ - 1]
       IN  Commit(fillSlots(c, c.running))
    /\ UNCHANGED << configVars, sessionVars, scanVars, lookup, lastFetch, settleTimers, serverTasks, itemsAdded >>

\* the embed timer of a task_finished event fires: embedMetadata is requested,
\* and its failure is logged
EmbedTimerFires ==
    /\ ~exited
    /\ embedTimers > 0
    /\ embedTimers' = embedTimers - 1
    /\ UNCHANGED << configVars, sessionVars, scanVars, lookup, encodingQueue, runningEncodings, attempts,
                    lastFetch, settleTimers, serverTasks, taskFinishedEvents,
                    taskFinishedHandled, itemsAdded, exited >>

\* The dispatch scenario: an established connection, every limit and both
\* DRY_RUN settings, metadata embedding off as by default (the embed requests
\* belong to the progress scenario)
Init ==
    /\ matrixStr = DispatchMatrix
    /\ conversionMatrix = parseConversionMatrix(matrixStr)
    /\ lookup = NoLookup
    /\ MAX_PARALLEL \in 1..MaxParallel
    /\ DRY_RUN \in BOOLEAN
    /\ EMBED_METADATA = FALSE
    /\ ENCODE_LIBRARY = FALSE
    /\ FreshClient
    /\ Established

Next ==
    \/ \E id \in ItemIds : ItemAdded(id)
    \/ SettleTimerFires
    \/ \E n \in 1..Len(attempts), d \in ItemDetails : GetItemDetailsReturns(n, d)
    \/ \E n \in 1..Len(attempts), ok \in BOOLEAN : StartM4bEncodingReturns(n, ok)
    \/ \E n \in 1..Len(attempts) : ServerListsTasks(n)
    \/ \E n \in 1..Len(attempts), ok \in BOOLEAN : GetTasksReturns(n, ok)
    \/ ServerFinishesTask
    \/ \E hasItemId \in BOOLEAN : TaskFinished(hasItemId)

Spec == Init /\ [][Next]_vars

-----------------------------------------------------------------------------
(* Drain scenario: runningEncodings = 0, a queue whose items all have an     *)
(* excluded codec, one scheduled dispatch attempt, every fetch succeeding    *)

QueuesUpTo(n) == UNION { [1..k -> ItemIds] : k \in 0..n }

InitDrain ==
    /\ matrixStr = DispatchMatrix
    /\ conversionMatrix = parseConversionMatrix(matrixStr)
    /\ lookup = NoLookup
    /\ MAX_PARALLEL \in 1..MaxParallel
    /\ DRY_RUN \in BOOLEAN
    /\ EMBED_METADATA \in BOOLEAN
    /\ ENCODE_LIBRARY = FALSE
    /\ encodingQueue \in QueuesUpTo(MaxQueue)
    /\ runningEncodings = 0
    /\ attempts = <<>>
    /\ lastFetch = NoFetch
    /\ settleTimers = 1
    /\ embedTimers = 0
    /\ serverTasks = 0
    /\ taskFinishedEvents = 0
    /\ taskFinishedHandled = FALSE
    /\ itemsAdded = 0
    /\ exited = FALSE
    /\ reconnectTimeout = 0
    /\ reconnectTimers = {}
    /\ exitTimer = FALSE
    /\ initialScanPerformed = FALSE
    /\ ackTimers = 0
    /\ scans = <<>>
    /\ scanTimers = 0
    /\ openTimers = 0
    /\ ignored = "none"
    /\ Established

NextDrain ==
    \/ SettleTimerFires
    \/ \E n \in 1..Len(attempts), d \in ExcludedAudioFiles : GetItemDetailsReturns(n, d)

SpecDrain == InitDrain /\ [][NextDrain]_vars /\ WF_vars(NextDrain)

-----------------------------------------------------------------------------
(* SocketClient: the session (index.ts) *)

TimerIds == 1..MaxTimers

\* the handle setTimeout returns: an id no pending timer has
NewTimer == CHOOSE t \in TimerIds : t \notin reconnectTimers /\ \A u \in TimerIds \ reconnectTimers : t <= u

\* onOpen: the namespace-connect frame is sent a second later
SocketOpens ==
    /\ ~exited
    /\ ws = "CONNECTING"
    /\ ws' = "OPEN"
    /\ openTimers' = openTimers + 1
    /\ UNCHANGED << configVars, dispatchVars, scanVars, lookup, handshake, reconnectTimeout,
                    reconnectTimers, exitTimer, sent, ignored >>

\* OpenTimerFires sending without testing the socket
OpenTimerFiresUnguarded ==
    /\ ~exited
    /\ openTimers > 0
    /\ openTimers' = openTimers - 1
    /\ handshake' = IF handshake = "no" THEN "sent" ELSE handshake
    /\ sent' = Append(sent, NamespaceConnectFrame)
    /\ UNCHANGED << configVars, dispatchVars, scanVars, lookup, ws, reconnectTimeout,
                    reconnectTimers, exitTimer, ignored >>

\* the timer of onOpen fires: sendRawSocketMessage("40"), which sends on an
\* open socket and logs an error otherwise
OpenTimerFires ==
    /\ ~exited
    /\ openTimers > 0
    /\ openTimers' = openTimers - 1
    /\ handshake' = IF ws = "OPEN" /\ handshake = "no" THEN "sent" ELSE handshake
    /\ sent' = sendRawSocketMessage(NamespaceConnectFrame)
    /\ UNCHANGED << configVars, dispatchVars, scanVars, lookup, ws, reconnectTimeout,
                    reconnectTimers, exitTimer, ignored >>

\* onMessage for the acknowledgement "40...", which the server sends once per
\* namespace-connect frame: the auth event is sent, and with ENCODE_LIBRARY
\* the scan is scheduled by setTimeout without a delay
AckReceived ==
    /\ ~exited
    /\ Receiving
    /\ handshake = "sent"
    /\ handshake' = "acked"
    /\ sent' = sendSocketIoEvent(auth, ABS_TOKEN)
    /\ ackTimers' = IF ENCODE_LIBRARY THEN ackTimers + 1 ELSE ackTimers
    /\ UNCHANGED << configVars, dispatchVars, lookup, ws, openTimers, reconnectTimeout,
                    reconnectTimers, exitTimer, initialScanPerformed, scans, scanTimers, ignored >>

\* onError: the error is logged.  The socket has failed, while connecting or
\* when open, and its close event is to come.
SocketErrors ==
    /\ ~exited
    /\ ws \in {"CONNECTING", "OPEN"}
    /\ ws' = "FAILED"
    /\ UNCHANGED << configVars, dispatchVars, scanVars, lookup, handshake, openTimers,
                    reconnectTimeout, reconnectTimers, exitTimer, sent, ignored >>

\* SocketCloses without a reconnect
SocketClosesForGood ==
    /\ ~exited
    /\ ws # "null"
    /\ ws' = "null"
    /\ sent' = <<>>
    /\ UNCHANGED << configVars, dispatchVars, scanVars, lookup, handshake, openTimers,
                    reconnectTimeout, reconnectTimers, exitTimer, ignored >>

\* SocketCloses leaving the socket and its listeners in place, and scheduling
\* a reconnect without looking at this.reconnectTimeout
SocketClosesUnguarded ==
    /\ ~exited
    /\ ws # "null"
    /\ TimerIds \ reconnectTimers # {}
    /\ reconnectTimeout' = NewTimer
    /\ reconnectTimers' = reconnectTimers \cup {NewTimer}
    /\ UNCHANGED << configVars, dispatchVars, scanVars, lookup, ws, handshake, openTimers, exitTimer,
                    sent, ignored >>

\* onClose: the listeners are removed, this.ws is null, and a reconnect is
\* scheduled unless this.reconnectTimeout is set
SocketCloses ==
    /\ ~exited
    /\ ws # "null"
    /\ ws' = "null"
    /\ IF reconnectTimeout = 0
       THEN /\ TimerIds \ reconnectTimers # {}
            /\ reconnectTimeout' = NewTimer
            /\ reconnectTimers' = reconnectTimers \cup {NewTimer}
       ELSE UNCHANGED << reconnectTimeout, reconnectTimers >>
    /\ sent' = <<>>
    /\ UNCHANGED << configVars, dispatchVars, scanVars, lookup, handshake, openTimers, exitTimer,
                    ignored >>

\* the reconnect timer t fires: connect().  It fires RECONNECT_DELAY_MS after
\* the close, when the timers of onOpen (1000 ms) and of the acknowledgement
\* (0 ms) set before the close have fired, and it cannot fire within the
\* second a signal handler leaves the process.
ReconnectTimerFires(t) ==
    /\ ~exited
    /\ t \in reconnectTimers
    /\ openTimers = 0
    /\ ackTimers = 0
    /\ ~exitTimer
    /\ reconnectTimers' = (reconnectTimers \ {t}) \ {reconnectTimeout}
    /\ reconnectTimeout' = 0
    /\ ws' = "CONNECTING"
    /\ handshake' = "no"
    /\ sent' = <<>>
    /\ UNCHANGED << configVars, dispatchVars, scanVars, lookup, openTimers, exitTimer, ignored >>

\* the SIGINT and SIGTERM handlers of main: client.shutdown(), then
\* process.exit a second later
Signal ==
    /\ ~exited
    /\ reconnectTimers' = reconnectTimers \ {reconnectTimeout}
    /\ reconnectTimeout' = 0
    /\ ws' = IF ws = "OPEN" THEN "CLOSING"
             ELSE IF ws # "null" THEN "TERMINATED"
             ELSE ws
    /\ exited' = shutdown(Client).exited
    /\ sent' = sendRawSocketMessage(NamespaceDisconnectFrame)
    /\ exitTimer' = TRUE
    /\ UNCHANGED << configVars, scanVars, lookup, handshake, openTimers, ignored, encodingQueue,
                    runningEncodings, attempts, lastFetch, settleTimers, embedTimers,
                    serverTasks, taskFinishedEvents, taskFinishedHandled, itemsAdded >>

\* the timer of a signal handler fires: process.exit(0)
ExitTimerFires ==
    /\ ~exited
    /\ exitTimer
    /\ exited' = TRUE
    /\ UNCHANGED << configVars, sessionVars, scanVars, lookup, encodingQueue,
                    runningEncodings, attempts, lastFetch, settleTimers, embedTimers,
                    serverTasks, taskFinishedEvents, taskFinishedHandled, itemsAdded >>

-----------------------------------------------------------------------------
(* SocketClient: the scan of the libraries (index.ts) *)

\* a performInitialLibraryScan call awaiting getLibraries
NewScan == [pc |-> "getLibraries", libraries |-> <<>>, itemsEnqueuedThisScan |-> 0]

\* what getLibraries can answer: a failure, or the media types of the libraries
LibraryLists == UNION { [1..n -> {"book", "podcast"}] : n \in 0..MaxLibraries }

\* what getLibraryItems can answer: a failure, or the ids of the items
ItemLists == UNION { [1..n -> ItemIds] : n \in 0..MaxItems }

\* if (library.mediaType !== 'book') continue
RECURSIVE SkipToBook(_)
SkipToBook(libraries) ==
    IF libraries = <<>> \/ Head(libraries) = "book" THEN libraries
    ELSE SkipToBook(Tail(libraries))

\* if (item.id && !this.encodingQueue.includes(item.id)) this.encodingQueue.push(item.id)
RECURSIVE PushNew(_, _)
PushNew(queue, items) ==
    IF items = <<>> THEN queue
    ELSE PushNew(IF includes(queue, Head(items)) THEN queue ELSE Append(queue, Head(items)),
                 Tail(items))

\* scan k goes on with the libraries left: it awaits the items of the next
\* book library, or it ends, scheduling the dispatch if it enqueued an item
ScanGoesOn(k, libraries, enqueued) ==
    IF SkipToBook(libraries) # <<>>
    THEN /\ scans' = [scans EXCEPT ![k] = [pc |-> "getLibraryItems",
                                            libraries |-> Tail(SkipToBook(libraries)),
                                            itemsEnqueuedThisScan |-> enqueued]]
         /\ UNCHANGED << initialScanPerformed, scanTimers >>
    ELSE /\ scans' = Without(scans, k)
         /\ initialScanPerformed' = TRUE
         /\ scanTimers' = IF enqueued > 0 THEN scanTimers + 1 ELSE scanTimers

\* the timer of an acknowledgement fires: the scan starts unless one has ended
AckTimerFires ==
    /\ ~exited
    /\ ackTimers > 0
    /\ initialScanPerformed \/ Len(scans) < MaxScans
    /\ ackTimers' = ackTimers - 1
    /\ scans' = IF initialScanPerformed THEN scans ELSE Append(scans, NewScan)
    /\ UNCHANGED << configVars, dispatchVars, sessionVars, lookup, initialScanPerformed, scanTimers >>

\* scan k resumes from await getLibraries
GetLibrariesReturns(k, ok, libraries) ==
    /\ ~exited
    /\ k \in 1..Len(scans)
    /\ scans[k].pc = "getLibraries"
    /\ IF ~ok \/ libraries = <<>>
       THEN /\ scans' = Without(scans, k)
            /\ initialScanPerformed' = TRUE
            /\ UNCHANGED scanTimers
       ELSE ScanGoesOn(k, libraries, 0)
    /\ UNCHANGED << configVars, dispatchVars, sessionVars, lookup, ackTimers >>

\* the loop over the items without the includes test: every listed id is pushed
GetLibraryItemsReturnsUnchecked(k, ok, items) ==
    /\ ~exited
    /\ k \in 1..Len(scans)
    /\ scans[k].pc = "getLibraryItems"
    /\ LET queue == IF ok THEN encodingQueue \o items ELSE encodingQueue
       IN  /\ encodingQueue' = queue
           /\ ScanGoesOn(k, scans[k].libraries,
                         scans[k].itemsEnqueuedThisScan + Len(queue) - Len(encodingQueue))
    /\ UNCHANGED << configVars, sessionVars, lookup, ackTimers, runningEncodings, attempts,
                    lastFetch, settleTimers, embedTimers, serverTasks, taskFinishedEvents,
                    taskFinishedHandled, itemsAdded, exited >>

\* scan k resumes from await getLibraryItems: the items not in the queue are
\* pushed; a failure is logged and the loop goes on
GetLibraryItemsReturns(k, ok, items) ==
    /\ ~exited
    /\ k \in 1..Len(scans)
    /\ scans[k].pc = "getLibraryItems"
    /\ LET queue == IF ok THEN PushNew(encodingQueue, items) ELSE encodingQueue
       IN  /\ encodingQueue' = queue
           /\ ScanGoesOn(k, scans[k].libraries,
                         scans[k].itemsEnqueuedThisScan + Len(queue) - Len(encodingQueue))
    /\ UNCHANGED << configVars, sessionVars, lookup, ackTimers, runningEncodings, attempts,
                    lastFetch, settleTimers, embedTimers, serverTasks, taskFinishedEvents,
                    taskFinishedHandled, itemsAdded, exited >>

\* the timer of a scan fires:
\* for (let i = this.runningEncodings; i < MAX_PARALLEL; i++) void this.processEncodingQueue()
ScanTimerFires ==
    /\ ~exited
    /\ scanTimers > 0
    /\ scanTimers' = scanTimers - 1
    /\ Commit(fillSlots(Client, runningEncodings))
    /\ UNCHANGED << configVars, sessionVars, lookup, lastFetch, settleTimers, embedTimers,
                    serverTasks, taskFinishedEvents, taskFinishedHandled, itemsAdded,
                    initialScanPerformed, ackTimers, scans >>

-----------------------------------------------------------------------------
(* SocketClient: the frames received (index.ts) *)

item_added == <<"i", "t", "e", "m", "_", "a", "d", "d", "e", "d">>

task_finished == <<"t", "a", "s", "k", "_", "f", "i", "n", "i", "s", "h", "e", "d">>

task_progress == <<"t", "a", "s", "k", "_", "p", "r", "o", "g", "r", "e", "s", "s">>

auth_success == auth \o <<"_", "s", "u", "c", "c", "e", "s", "s">>

encode == <<"e", "n", "c", "o", "d", "e">>

\* the keys of the payloads
idKey == <<"i", "d">>

actionKey == <<"a", "c", "t", "i", "o", "n">>

dataKey == <<"d", "a", "t", "a">>

libraryItemIdKey == <<"l", "i", "b", "r", "a", "r", "y", "I", "t", "e", "m", "I", "d">>

\* the texts a server can put in a frame
Str(s) == <<Quote>> \o s \o <<Quote>>

Member(key, valueText) == <<"{">> \o Str(key) \o <<":">> \o valueText \o <<"}">>

EventPrefix == ENGINE_IO_PACKET_MESSAGE \o SOCKET_IO_MSG_EVENT

Event1(eventName) == EventPrefix \o <<"[">> \o Str(eventName) \o <<"]">>

Event2(eventName, payloadText) ==
    EventPrefix \o <<"[">> \o Str(eventName) \o <<",">> \o payloadText \o <<"]">>

Sid == Member(<<"s", "i", "d">>, Str(<<"s">>))

\* item_added events with an identifier
ItemAddedFrames ==
    { Event2(item_added, Member(idKey, Str(<<id>>))) : id \in ItemIds }
    \cup { Event2(item_added, <<" ">> \o Member(idKey, Str(<<"a">>)) \o <<" ">>) }

\* item_added events without one
ItemAddedWithoutIdFrames ==
    { Event1(item_added),
      Event2(item_added, <<"{", "}">>),
      Event2(item_added, <<"n", "u", "l", "l">>),
      Event2(item_added, Str(<<"a">>)),
      Event2(item_added, Member(idKey, Str(<<>>))),
      Event2(item_added, Member(dataKey, Member(idKey, Str(<<"a">>)))) }

\* task_finished events of an encoding job, with and without the item
EncodeFinishedFrames ==
    { Event2(task_finished, Member(actionKey, Str(encode))),
      Event2(task_finished,
             <<"{">> \o Str(actionKey) \o <<":">> \o Str(encode \o <<"-", "m", "4", "b">>) \o <<",">>
                     \o Str(dataKey) \o <<":">> \o Member(libraryItemIdKey, Str(<<"a">>)) \o <<"}">>) }

\* task_finished events whose action is missing, not a string, or another job's
OtherTaskFinishedFrames ==
    { Event1(task_finished),
      Event2(task_finished, <<"{", "}">>),
      Event2(task_finished, Member(actionKey, <<"5">>)),
      Event2(task_finished, Member(actionKey, <<"n", "u", "l", "l">>)),
      Event2(task_finished, Member(actionKey, Str(<<"e", "m", "b", "e", "d">>))),
      Event2(task_finished, Member(actionKey, Str(<<"E", "n", "c", "o", "d", "e">>))),
      Event2(task_finished, Member(dataKey, Member(actionKey, Str(encode)))) }

\* events with a name that is logged only, or that no case names
OtherEventFrames ==
    { Event1(auth_success),
      Event2(task_progress, <<"{", "}">>),
      Event2(<<"i", "t", "e", "m", "_", "u", "p", "d", "a", "t", "e", "d">>, Member(idKey, Str(<<"a">>))),
      Event2(<<"I", "t", "e", "m", "_", "a", "d", "d", "e", "d">>, Member(idKey, Str(<<"a">>))),
      Event2(encode, Member(actionKey, Str(encode))),
      EventPrefix \o <<"[", "5", "]">>,
      EventPrefix \o <<"[", "n", "u", "l", "l", ",">> \o Member(idKey, Str(<<"a">>)) \o <<"]">> }

\* event frames whose body is not JSON, or not a non-empty array
MalformedEventFrames ==
    { EventPrefix,
      EventPrefix \o <<"[">>,
      EventPrefix \o <<"[">> \o Str(item_added) \o <<",">> \o Member(idKey, Str(<<"a">>)),
      EventPrefix \o <<"[">> \o item_added \o <<"]">>,
      EventPrefix \o <<"[">> \o Str(item_added) \o <<",", "]">>,
      EventPrefix \o <<"[", "]">>,
      EventPrefix \o Str(item_added),
      EventPrefix \o Member(idKey, Str(<<"a">>)),
      EventPrefix \o <<"/", "n", "s", ",">> \o <<"[">> \o Str(item_added) \o <<"]">> }

\* the frames of the other kinds
OtherFrames ==
    { ENGINE_IO_PACKET_PING,
      ENGINE_IO_PACKET_OPEN \o Sid,
      NamespaceConnectFrame \o Sid,
      NamespaceDisconnectFrame,
      ENGINE_IO_PACKET_PONG }

ReceivedFrames ==
    ItemAddedFrames \cup ItemAddedWithoutIdFrames \cup EncodeFinishedFrames
    \cup OtherTaskFinishedFrames \cup OtherEventFrames \cup MalformedEventFrames \cup OtherFrames

\* the bodies of the event frames, and what JSON.parse makes of each
EventBodies == { substring(messageStr, 2) : messageStr \in { f \in ReceivedFrames : startsWith(f, EventPrefix) } }

Parsed == [text \in EventBodies |-> JSONparse(text)]

\* the queue entry of an identifier read from a payload
IdOf(v) == CHOOSE id \in ItemIds : v.s = <<id>>

\* onMessage or handleSocketIoEvent returns without acting on the frame: it
\* logs, or does nothing
Ignore(what) ==
    /\ ~exited
    /\ Receiving
    /\ ignored' = what
    /\ UNCHANGED << configVars, dispatchVars, scanVars, lookup, ws, handshake, openTimers,
                    reconnectTimeout, reconnectTimers, exitTimer, sent >>

\* onMessage for the ping "2" logging it without an answer
PingReceivedUnanswered == Ignore("ping")

\* onMessage for the ping "2": sendRawSocketMessage("3")
PingReceived ==
    /\ ~exited
    /\ Receiving
    /\ Len(sent) < MaxSent
    /\ sent' = sendRawSocketMessage(ENGINE_IO_PACKET_PONG)
    /\ UNCHANGED << configVars, dispatchVars, scanVars, lookup, ws, handshake, openTimers,
                    reconnectTimeout, reconnectTimers, exitTimer, ignored >>

\* handleSocketIoEvent acting on every task_finished event, whatever its action
handleSocketIoEventAnyAction(eventName, payload) ==
    IF eventName = JString(item_added)
    THEN IF JTruthy(payload) /\ JTruthy(JGet(payload, idKey))
         THEN ItemAdded(IdOf(JGet(payload, idKey)))
         ELSE Ignore("item_added without id")
    ELSE IF eventName = JString(task_finished)
    THEN TaskFinished(JTruthy(JGet(JGet(payload, dataKey), libraryItemIdKey)))
    ELSE Ignore("event name")

\* handleSocketIoEvent(eventName, payload)
handleSocketIoEvent(eventName, payload) ==
    IF eventName = JString(item_added)
    THEN IF JTruthy(payload) /\ JTruthy(JGet(payload, idKey))
         THEN ItemAdded(IdOf(JGet(payload, idKey)))
         ELSE Ignore("item_added without id")
    ELSE IF eventName = JString(task_finished)
    THEN LET action == JGet(payload, actionKey) IN
         IF action.t = "string" /\ includesText(action.s, encode)
         THEN TaskFinished(JTruthy(JGet(JGet(payload, dataKey), libraryItemIdKey)))
         ELSE Ignore("task_finished without encode")
    ELSE Ignore("event name")

\* onMessage handing every parsed body to handleSocketIoEvent, array or not
onMessageUnchecked(messageStr) ==
    IF messageStr = ENGINE_IO_PACKET_PING THEN PingReceived
    ELSE IF startsWith(messageStr, ENGINE_IO_PACKET_OPEN) THEN Ignore("open packet")
    ELSE IF startsWith(messageStr, NamespaceConnectFrame) THEN AckReceived
    ELSE IF startsWith(messageStr, EventPrefix)
    THEN LET parsed == Parsed[substring(messageStr, 2)]
             payload == JAt(parsed.val, 1)
         IN  IF parsed.threw THEN Ignore("not JSON")
             ELSE handleSocketIoEvent(JAt(parsed.val, 0),
                                      IF JTruthy(payload) THEN payload ELSE JObject(<<>>))
    ELSE Ignore("other packet")

\* onMessage(data)
onMessage(messageStr) ==
    IF messageStr = ENGINE_IO_PACKET_PING THEN PingReceived
    ELSE IF startsWith(messageStr, ENGINE_IO_PACKET_OPEN) THEN Ignore("open packet")
    ELSE IF startsWith(messageStr, NamespaceConnectFrame) THEN AckReceived
    ELSE IF startsWith(messageStr, EventPrefix)
    THEN LET jsonArrayString == substring(messageStr, 2)
             parsed          == Parsed[jsonArrayString]
             parsedArray     == parsed.val
         IN  IF parsed.threw THEN Ignore("not JSON")
             ELSE IF parsedArray.t = "array" /\ Len(parsedArray.a) > 0
             THEN handleSocketIoEvent(JAt(parsedArray, 0),
                                      IF JTruthy(JAt(parsedArray, 1)) THEN JAt(parsedArray, 1)
                                      ELSE JObject(<<>>))
             ELSE Ignore("not a non-empty array")
    ELSE Ignore("other packet")

-----------------------------------------------------------------------------
(* Frame scenario: a socket whose namespace-connect frame is out, after one  *)
(* item was added and sent to encoding; the server sends the acknowledgement *)
(* and events of every kind (the pings belong to the reconnect scenario),    *)
(* and every further fetch of item details fails                             *)

\* what the attempt that requested the running job recorded
EncodeFetch ==
    [codec   |-> mp3,
     skipped |-> FALSE,
     engine  |-> TRUE,
     profile |-> findConversion(parseConversionMatrix(DispatchMatrix).map, mp3, 1, 1),
     encode  |-> TRUE]

InitFrames ==
    /\ matrixStr = DispatchMatrix
    /\ conversionMatrix = parseConversionMatrix(matrixStr)
    /\ lookup = NoLookup
    /\ MAX_PARALLEL \in 1..MaxParallel
    /\ DRY_RUN = FALSE
    /\ EMBED_METADATA \in BOOLEAN
    /\ ENCODE_LIBRARY = FALSE
    /\ encodingQueue = <<>>
    /\ runningEncodings = 1
    /\ attempts = <<>>
    /\ lastFetch = EncodeFetch
    /\ settleTimers = 0
    /\ embedTimers = 0
    /\ serverTasks = 1
    /\ taskFinishedEvents = 0
    /\ taskFinishedHandled = FALSE
    /\ itemsAdded = 1
    /\ exited = FALSE
    /\ reconnectTimeout = 0
    /\ reconnectTimers = {}
    /\ exitTimer = FALSE
    /\ initialScanPerformed = FALSE
    /\ ackTimers = 0
    /\ scans = <<>>
    /\ scanTimers = 0
    /\ openTimers = 0
    /\ ignored = "none"
    /\ ws = "OPEN"
    /\ handshake = "sent"
    /\ sent = <<NamespaceConnectFrame>>

NextFrames ==
    \/ \E messageStr \in ReceivedFrames \ {ENGINE_IO_PACKET_PING} : onMessage(messageStr)
    \/ SettleTimerFires
    \/ \E n \in 1..Len(attempts) : GetItemDetailsReturns(n, Failure)
    \/ ServerFinishesTask
    \/ EmbedTimerFires

SpecFrames == InitFrames /\ [][NextFrames]_vars

-----------------------------------------------------------------------------
(* Session scenario: main has constructed the client and called connect();  *)
(* the queue is filled by the scan, and every fetch of item details fails    *)

InitSession ==
    /\ matrixStr = DispatchMatrix
    /\ conversionMatrix = parseConversionMatrix(matrixStr)
    /\ lookup = NoLookup
    /\ MAX_PARALLEL = 1
    /\ DRY_RUN = FALSE
    /\ EMBED_METADATA = FALSE
    /\ ENCODE_LIBRARY \in BOOLEAN
    /\ FreshClient
    /\ ws = "CONNECTING"
    /\ handshake = "no"
    /\ sent = <<>>

NextSession ==
    \/ SocketOpens
    \/ OpenTimerFires
    \/ AckReceived
    \/ SocketCloses
    \/ \E t \in TimerIds : ReconnectTimerFires(t)
    \/ Signal
    \/ ExitTimerFires
    \/ AckTimerFires
    \/ \E k \in 1..Len(scans), ok \in BOOLEAN, libraries \in LibraryLists :
           GetLibrariesReturns(k, ok, libraries)
    \/ \E k \in 1..Len(scans), ok \in BOOLEAN, items \in ItemLists :
           GetLibraryItemsReturns(k, ok, items)
    \/ ScanTimerFires
    \/ \E n \in 1..Len(attempts) : GetItemDetailsReturns(n, Failure)

SpecSession == InitSession /\ [][NextSession]_vars

-----------------------------------------------------------------------------
(* Reconnect scenario: no signal, no scan; sockets fail and close at any     *)
(* time, the timers fire, and the close event of a failed socket is delivered *)

InitReconnect ==
    /\ matrixStr = DispatchMatrix
    /\ conversionMatrix = parseConversionMatrix(matrixStr)
    /\ lookup = NoLookup
    /\ MAX_PARALLEL = 1
    /\ DRY_RUN = FALSE
    /\ EMBED_METADATA = FALSE
    /\ ENCODE_LIBRARY = FALSE
    /\ FreshClient
    /\ ws = "CONNECTING"
    /\ handshake = "no"
    /\ sent = <<>>

\* the close event that follows an error
CloseFollowsError == ws = "FAILED" /\ SocketCloses

NextReconnect ==
    \/ SocketOpens
    \/ OpenTimerFires
    \/ \E messageStr \in OtherFrames : onMessage(messageStr)
    \/ SocketErrors
    \/ SocketCloses
    \/ \E t \in TimerIds : ReconnectTimerFires(t)

SpecReconnect ==
    /\ InitReconnect
    /\ [][NextReconnect]_vars
    /\ WF_vars(OpenTimerFires)
    /\ WF_vars(CloseFollowsError)
    /\ WF_vars(\E t \in TimerIds : ReconnectTimerFires(t))

-----------------------------------------------------------------------------
(* Scan scenario: drain-then-exit mode with the scan on start, on a socket   *)
(* whose namespace-connect frame is out; every request is answered           *)

InitScan ==
    /\ matrixStr = DispatchMatrix
    /\ conversionMatrix = parseConversionMatrix(matrixStr)
    /\ lookup = NoLookup
    /\ MAX_PARALLEL \in 1..MaxParallel
    /\ DRY_RUN = TRUE
    /\ EMBED_METADATA = FALSE
    /\ ENCODE_LIBRARY = TRUE
    /\ FreshClient
    /\ ws = "OPEN"
    /\ handshake = "sent"
    /\ sent = <<NamespaceConnectFrame>>

NextScan ==
    \/ AckReceived
    \/ AckTimerFires
    \/ \E k \in 1..Len(scans), libraries \in LibraryLists : GetLibrariesReturns(k, TRUE, libraries)
    \/ \E k \in 1..Len(scans), items \in ItemLists : GetLibraryItemsReturns(k, TRUE, items)
    \/ ScanTimerFires
    \/ \E n \in 1..Len(attempts), d \in ItemDetails \ {Failure} : GetItemDetailsReturns(n, d)
    \/ \E n \in 1..Len(attempts) : StartM4bEncodingReturns(n, TRUE)
    \/ \E n \in 1..Len(attempts) : ServerListsTasks(n)
    \/ \E n \in 1..Len(attempts) : GetTasksReturns(n, TRUE)
    \/ ServerFinishesTask
    \/ \E hasItemId \in BOOLEAN : TaskFinished(hasItemId)

SpecScan == InitScan /\ [][NextScan]_vars /\ WF_vars(NextScan)

-----------------------------------------------------------------------------
(* Bulk scan scenario: the scan is about to start on an acknowledged         *)
(* connection, after item_added events whose timers are still pending filled *)
(* the queue with different ids; a scan of an earlier connection may still   *)
(* await its libraries; no item_added event arrives any more                 *)

\* the ids of a sequence are pairwise different
Distinct(seq) == \A i, j \in 1..Len(seq) : seq[i] = seq[j] => i = j

\* the ids of a sequence
Ids(seq) == { seq[i] : i \in 1..Len(seq) }

\* the queues without duplicates
DistinctQueues ==
    { queue \in UNION { [1..n -> ItemIds] : n \in 0..Cardinality(ItemIds) } : Distinct(queue) }

InitBulkScan ==
    /\ matrixStr = DispatchMatrix
    /\ conversionMatrix = parseConversionMatrix(matrixStr)
    /\ lookup = NoLookup
    /\ MAX_PARALLEL = 1
    /\ DRY_RUN = FALSE
    /\ EMBED_METADATA = FALSE
    /\ ENCODE_LIBRARY = TRUE
    /\ encodingQueue \in DistinctQueues
    /\ runningEncodings = 0
    /\ attempts = <<>>
    /\ lastFetch = NoFetch
    /\ settleTimers = Len(encodingQueue)
    /\ embedTimers = 0
    /\ serverTasks = 0
    /\ taskFinishedEvents = 0
    /\ taskFinishedHandled = FALSE
    /\ itemsAdded = Len(encodingQueue)
    /\ exited = FALSE
    /\ reconnectTimeout = 0
    /\ reconnectTimers = {}
    /\ exitTimer = FALSE
    /\ initialScanPerformed = FALSE
    /\ ackTimers = 1
    /\ scans \in {<<>>, <<NewScan>>}
    /\ scanTimers = 0
    /\ openTimers = 0
    /\ ignored = "none"
    /\ Established

NextBulkScan ==
    \/ AckTimerFires
    \/ \E k \in 1..Len(scans), ok \in BOOLEAN, libraries \in LibraryLists :
           GetLibrariesReturns(k, ok, libraries)
    \/ \E k \in 1..Len(scans), ok \in BOOLEAN, items \in ItemLists :
           GetLibraryItemsReturns(k, ok, items)
    \/ ScanTimerFires
    \/ SettleTimerFires
    \/ \E n \in 1..Len(attempts) : GetItemDetailsReturns(n, Failure)

SpecBulkScan == InitBulkScan /\ [][NextBulkScan]_vars

-----------------------------------------------------------------------------
(* Progress scenario: the dispatch loop on an established connection, with  *)
(* every request answered and every event delivered                         *)

InitProgress ==
    /\ matrixStr = DispatchMatrix
    /\ conversionMatrix = parseConversionMatrix(matrixStr)
    /\ lookup = NoLookup
    /\ MAX_PARALLEL \in 1..MaxParallel
    /\ DRY_RUN = FALSE
    /\ EMBED_METADATA \in BOOLEAN
    /\ ENCODE_LIBRARY = FALSE
    /\ FreshClient
    /\ Established

\* what the program and the server do once the events are in
Answers ==
    \/ SettleTimerFires
    \/ \E n \in 1..Len(attempts), d \in ItemDetails \ {Failure} : GetItemDetailsReturns(n, d)
    \/ \E n \in 1..Len(attempts) : StartM4bEncodingReturns(n, TRUE)
    \/ \E n \in 1..Len(attempts) : ServerListsTasks(n)
    \/ \E n \in 1..Len(attempts) : GetTasksReturns(n, TRUE)
    \/ ServerFinishesTask
    \/ \E hasItemId \in BOOLEAN : TaskFinished(hasItemId)
    \/ EmbedTimerFires

NextProgress ==
    \/ \E id \in ItemIds : ItemAdded(id)
    \/ Answers

SpecProgress == InitProgress /\ [][NextProgress]_vars /\ WF_vars(Answers)

-----------------------------------------------------------------------------
(* Properties of the rule engine *)
(* The rule table as declared: the items of the text, read one by one *)

DeclaredItems == split(matrixStr, ",")

ItemSides(item) == split(item, "=")

IsExplicitRule(item) == Truthy(At(ItemSides(item), 1)) /\ Truthy(At(ItemSides(item), 2))

IsBareFallback(item) ==
    /\ Truthy(At(ItemSides(item), 1))
    /\ ~Truthy(At(ItemSides(item), 2))
    /\ \A k \in 1..3 : Truthy(At(split(At(ItemSides(item), 1), "|"), k))

ItemCondition(item) == trim(At(ItemSides(item), 1))

ItemAction(item) ==
    LET f == split(At(ItemSides(item), IF IsExplicitRule(item) THEN 2 ELSE 1), "|")
    IN  Profile(trim(At(f, 1)), trim(At(f, 2)), trim(At(f, 3)))

IsFallbackItem(item) ==
    IsBareFallback(item) \/ (IsExplicitRule(item) /\ ItemCondition(item) = FallbackKey)

\* a bound of a condition admits value v: 0 is unbounded on that side
AdmitsLow(bound, v) == bound = <<"0">> \/ (~parseInt(bound).nan /\ parseInt(bound).val <= v)

AdmitsHigh(bound, v) == bound = <<"0">> \/ (~parseInt(bound).nan /\ v <= parseInt(bound).val)

\* the condition text holds of the input of the lookup
CondHolds(condition) ==
    LET c == split(condition, "|")
    IN  /\ (At(c, 1) = <<"0">> \/ toLowerCase(At(c, 1)) = toLowerCase(lookup.codec))
        /\ AdmitsLow(At(c, 2), lookup.bitRate)
        /\ AdmitsHigh(At(c, 3), lookup.bitRate)
        /\ AdmitsLow(At(c, 4), lookup.channels)
        /\ AdmitsHigh(At(c, 5), lookup.channels)

\* an action as match returns it: the copy sentinel stands for the input itself
InputProfile == Profile(lookup.codec, toString(lookup.bitRate), toString(lookup.channels))

Returned(action) == IF toLowerCase(action.codec) = copy THEN InputProfile ELSE action

Min(S) == CHOOSE x \in S : \A y \in S : x <= y

Max(S) == CHOOSE x \in S : \A y \in S : y <= x

ItemIndexes == 1..Len(DeclaredItems)

ExplicitMatches ==
    { i \in ItemIndexes : IsExplicitRule(DeclaredItems[i])
                          /\ CondHolds(ItemCondition(DeclaredItems[i])) }

NonFallbackMatches == { i \in ExplicitMatches : ~IsFallbackItem(DeclaredItems[i]) }

BareFallbacks == { i \in ItemIndexes : IsBareFallback(DeclaredItems[i]) }

AtMostOneFallback ==
    Cardinality({ i \in ItemIndexes : IsFallbackItem(DeclaredItems[i]) }) <= 1

FallbackDeclaredLast ==
    \A i, j \in ItemIndexes :
        IsFallbackItem(DeclaredItems[i]) /\ ~IsFallbackItem(DeclaredItems[j]) => j < i

DistinctConditions ==
    \A i, j \in ItemIndexes :
        /\ i # j
        /\ IsExplicitRule(DeclaredItems[i])
        /\ IsExplicitRule(DeclaredItems[j])
        => ItemCondition(DeclaredItems[i]) # ItemCondition(DeclaredItems[j])

\* C4: match returns the action of the first rule in declaration order whose
\* condition holds, also when the table declares a condition more than once.
\* Stated for the tables that keep their one fallback entry, if any, last, so
\* that the order of explicit rules alone decides.
FirstDeclaredMatchWins ==
    (lookup.called /\ AtMostOneFallback /\ FallbackDeclaredLast /\ ExplicitMatches # {})
        => lookup.result = Returned(ItemAction(DeclaredItems[Min(ExplicitMatches)]))

\* C5: the fallback is consulted last whatever its position in the text: an
\* input that satisfies an explicit rule receives that rule's action.  Stated
\* for the tables with pairwise distinct conditions and at most one fallback.
FallbackConsultedLast ==
    (lookup.called /\ AtMostOneFallback /\ DistinctConditions /\ NonFallbackMatches # {})
        => lookup.result = Returned(ItemAction(DeclaredItems[Min(NonFallbackMatches)]))

\* C6: with a bare fallback entry in the table, an input matching no explicit
\* rule receives the fallback action (the last bare entry's, when there are
\* several); with no fallback entry, an input matching no rule yields null.
FallbackForUnmatched ==
    lookup.called =>
        /\ (BareFallbacks # {} /\ ExplicitMatches = {}
                => lookup.result = Returned(ItemAction(DeclaredItems[Max(BareFallbacks)])))
        /\ (BareFallbacks = {} /\ ExplicitMatches = {} => lookup.result = Null)

FallbackForUnmatchedWitness ==
    /\ lookup.called
    /\ Len(DeclaredItems) = 2
    /\ IsExplicitRule(DeclaredItems[1])
    /\ BareFallbacks = {2}
    /\ ExplicitMatches = {}
    /\ lookup.result = ItemAction(DeclaredItems[2])
    /\ lookup.result # InputProfile

\* the profile findConversion selected in the parsed table, before the copy
\* resolution: the first entry whose condition holds, else the fallback entry
SelectedProfile ==
    LET map  == conversionMatrix.map
        hits == { i \in 1..Len(map) : CondHolds(map[i].condition) }
    IN  IF hits # {} THEN map[Min(hits)].profile ELSE MapGet(map, FallbackKey)

\* C7: when the selected action has the copy sentinel as codec (in any case),
\* match returns the input's codec and the input's bitrate and channel count
\* as strings, whatever the action's own bitrate and channels fields.
CopyResolvesToInput ==
    (lookup.called /\ toLowerCase(SelectedProfile.codec) = copy)
        => /\ lookup.result.codec = lookup.codec
           /\ lookup.result.bitrate = toString(lookup.bitRate)
           /\ lookup.result.channels = toString(lookup.channels)

CopyResolvesToInputWitness ==
    /\ lookup.called
    /\ SelectedProfile.codec = <<"C", "o", "p", "y">>
    /\ SelectedProfile.bitrate # toString(lookup.bitRate)
    /\ SelectedProfile.channels # toString(lookup.channels)
    /\ lookup.codec = mp3
    /\ lookup.result = Profile(mp3, toString(lookup.bitRate), toString(lookup.channels))

InBounds(L, H, v) == (L = 0 \/ v >= L) /\ (H = 0 \/ v <= H)

\* C8: a rule with bitrate (or channel) bounds [L,H] matches exactly the
\* inputs with L <= value <= H, both ends included; L = 0 accepts every
\* value <= H and H = 0 every value >= L.
BoundsAreInclusive ==
    lookup.called =>
        /\ \A L, H \in 0..MaxBitrate :
              matrixStr = BitrateBoundText[L, H]
                  => (lookup.result # Null <=> InBounds(L, H, lookup.bitRate))
        /\ \A L, H \in 0..MaxChannels :
              matrixStr = ChannelBoundText[L, H]
                  => (lookup.result # Null <=> InBounds(L, H, lookup.channels))

BoundsAreInclusiveWitness ==
    /\ lookup.called
    /\ matrixStr = BitrateBoundText[2, 10]
    /\ lookup.bitRate = 10
    /\ lookup.result = Profile(opus, toString(1), toString(1))

-----------------------------------------------------------------------------
(* Properties of the dispatch queue *)

\* the encoding jobs requested with success whose task_finished event has not
\* been received: still running on the server, or finished with the event on
\* its way
JobsOutstanding == serverTasks + taskFinishedEvents

\* C1: the number of encoding jobs requested with success and without a
\* received task_finished event never exceeds MAX_PARALLEL.
ParallelLimitRespected == JobsOutstanding <= MAX_PARALLEL

\* C2: as long as no task_finished event has arrived (none was even sent),
\* runningEncodings is at most MAX_PARALLEL, whatever dispatch attempts and
\* resyncs have run.
CounterWithinLimitBeforeCompletion ==
    (~taskFinishedHandled /\ taskFinishedEvents = 0) => runningEncodings <= MAX_PARALLEL

\* every popped entry has been dealt with: nothing queued, nothing in flight
Drained ==
    /\ encodingQueue = <<>>
    /\ runningEncodings = 0
    /\ attempts = <<>>

NoEncodingRequested == serverTasks = 0 /\ ~lastFetch.encode

NoCompletionSignal == taskFinishedEvents = 0 /\ ~taskFinishedHandled

\* C3: from runningEncodings = 0 and a queue whose items all have an excluded
\* codec, the one scheduled dispatch attempt eventually leaves the queue empty
\* and runningEncodings at 0 for good, and all along no task_finished event is
\* received and no encoding is requested.
ExcludedQueueDrains ==
    /\ <>[]Drained
    /\ [](NoEncodingRequested /\ NoCompletionSignal)

ExcludedQueueDrainsWitness ==
    /\ Drained
    /\ settleTimers = 0
    /\ MAX_PARALLEL = 1
    /\ lastFetch.codec = Opus
    /\ lastFetch.skipped

\* the excluded set as configured, compared without regard to case
InExcludedSet(codec) ==
    \E i \in 1..Len(split(EXCLUDED_CODECS_ENV, ",")) :
        toLowerCase(split(EXCLUDED_CODECS_ENV, ",")[i]) = toLowerCase(codec)

Popped == Len(encodingQueue) - Len(encodingQueue')

\* C11: with EMBED_METADATA off no embed request is ever scheduled or sent,
\* and every handled task_finished event of an encoding takes exactly one off
\* runningEncodings (the entries its backfill pops each put one back on).
EmbedDisabledDecrementOnly ==
    [][ ~EMBED_METADATA =>
            /\ embedTimers = 0
            /\ embedTimers' = 0
            /\ ~EmbedTimerFires
            /\ \A hasItemId \in BOOLEAN :
                   TaskFinished(hasItemId) => runningEncodings' = runningEncodings - 1 + Popped
      ]_vars

EmbedDisabledDecrementOnlyWitness ==
    /\ ~EMBED_METADATA
    /\ taskFinishedHandled
    /\ taskFinishedEvents = 0
    /\ serverTasks = 0
    /\ runningEncodings = 0
    /\ embedTimers = 0

\* C12: an entry is not popped before its own settle timer has fired.  The
\* timers have one delay and fire in the order of the item_added events, the
\* queue is popped in that order too, so the k-th entry is popped before the
\* k-th timer fires exactly when more timers are pending than entries queued.
PoppedAfterOwnSettleDelay == settleTimers <= Len(encodingQueue)

\* C13: in drain-then-exit mode the process does not exit while a popped
\* entry awaits its item details: it has not been skipped, has not failed and
\* no encoding has been requested for it.
NoExitWhileAttemptInFlight ==
    (DRY_RUN /\ exited) => \A n \in 1..Len(attempts) : attempts[n].pc # "getItemDetails"

\* C14: in drain-then-exit mode with the scan on start, whatever the scan
\* finds, the process eventually exits.
ScanEventuallyExits == <>exited

\* C16: runningEncodings is never negative.
CounterNonNegative == runningEncodings >= 0

-----------------------------------------------------------------------------
(* Properties of the session *)

\* C15: at most one reconnect timer is pending, whatever close events, timer
\* firings, connect calls and shutdowns have happened.
AtMostOneReconnectTimer == Cardinality(reconnectTimers) <= 1

\* a reconnect is pending after the second connection closed (the second
\* scan was started by the acknowledgement on that connection)
AtMostOneReconnectTimerWitness ==
    /\ Cardinality(reconnectTimers) = 1
    /\ reconnectTimeout \in reconnectTimers
    /\ ws = "null"
    /\ Len(scans) = 2

-----------------------------------------------------------------------------
(* Properties of the dispatch loop *)

\* the entries popped so far, where the queue is filled by item_added only
PoppedSoFar == itemsAdded - Len(encodingQueue)

\* C17: while the control plane answers and the events arrive, a non-empty
\* queue does not stay as it is: one more entry is eventually popped.
QueuedEntryEventuallyPopped ==
    \A k \in 0..MaxAdds :
        (encodingQueue # <<>> /\ PoppedSoFar = k) ~> (PoppedSoFar > k)

\* attempt n ends in a skip in this step: no audio files, an excluded codec
\* or no matching rule
SkipStep(n) ==
    /\ attempts[n].pc = "getItemDetails"
    /\ lastFetch'.skipped
    /\ \E d \in ItemDetails \ {Failure} : GetItemDetailsReturns(n, d)

\* attempt n ends in a failure in this step: getItemDetails or
\* startM4bEncoding threw
FailStep(n) == GetItemDetailsReturns(n, Failure) \/ StartM4bEncodingReturns(n, FALSE)

\* C18: an attempt that ends in a skip or in a failure takes exactly one off
\* runningEncodings, as the pop that started it had put exactly one on (the
\* entries popped in the same step each put one on for their own attempt).
SkipOrFailureDecrementsOnce ==
    [][ /\ \/ runningEncodings' = runningEncodings - 1 + Popped
           \/ \A n \in 1..Len(attempts) : ~(SkipStep(n) \/ FailStep(n))
        /\ \/ runningEncodings' = runningEncodings + Popped
           \/ ~SettleTimerFires
      ]_vars

SkipOrFailureDecrementsOnceWitness ==
    /\ lastFetch.skipped
    /\ lastFetch.codec = flac
    /\ lastFetch.engine
    /\ runningEncodings = 0
    /\ attempts = <<>>
    /\ serverTasks = 0
    /\ ~taskFinishedHandled

\* C19: when getItemDetails or startM4bEncoding fails for an entry, the entry
\* does not go back into the queue, runningEncodings is decremented, and
\* processEncodingQueue runs in the same step: if an entry is queued and the
\* decremented counter is below the limit, the head is popped and its attempt
\* starts.
FailureDropsEntryAndContinues ==
    [][ \A n \in 1..Len(attempts) :
            FailStep(n) =>
                /\ Popped \in {0, 1}
                /\ encodingQueue' = SubSeq(encodingQueue, Popped + 1, Len(encodingQueue))
                /\ runningEncodings' = runningEncodings - 1 + Popped
                /\ (encodingQueue # <<>> /\ runningEncodings - 1 < MAX_PARALLEL)
                       => /\ Popped = 1
                          /\ attempts' = InOrder(Append(Without(attempts, n),
                                                         NewAttempt(Head(encodingQueue))))
      ]_vars

\* three entries were added and one settle timer has fired: the first entry
\* failed at getItemDetails and the second was popped in that same step
FailureDropsEntryAndContinuesWitness ==
    /\ itemsAdded = 3
    /\ settleTimers = 2
    /\ Len(encodingQueue) = 1
    /\ lastFetch.skipped
    /\ lastFetch.codec = Undefined
    /\ Len(attempts) = 1
    /\ attempts[1].pc = "getItemDetails"
    /\ serverTasks = 0
    /\ ~taskFinishedHandled

\* the await an attempt suspended at pc reaches next
NextAwait(pc) ==
    IF pc = "getItemDetails" THEN "startM4bEncoding"
    ELSE IF pc = "startM4bEncoding" THEN "getTasks"
    ELSE "getTasksAnswered"

\* C20: every entry that leaves the queue leaves it from the head and becomes
\* exactly one new attempt, for that entry; attempts are never duplicated and
\* only move on to their next await or end, so none requests encoding twice.
EachEntryOwnedByOneAttempt ==
    [][ \/ /\ \E id \in ItemIds : encodingQueue' = Append(encodingQueue, id)
           /\ attempts' = attempts
        \/ /\ Popped \in 0..Len(encodingQueue)
           /\ encodingQueue' = SubSeq(encodingQueue, Popped + 1, Len(encodingQueue))
           /\ LET new == [k \in 1..Popped |-> NewAttempt(encodingQueue[k])]
              IN  \/ attempts' = InOrder(attempts \o new)
                  \/ \E n \in 1..Len(attempts) :
                         \/ attempts' = InOrder(Without(attempts, n) \o new)
                         \/ /\ attempts[n].pc # "getTasksAnswered"
                            /\ \E tasks \in 0..MaxAdds :
                                   attempts' = InOrder([attempts EXCEPT ![n].pc = NextAwait(@),
                                                                        ![n].tasks = tasks] \o new)
      ]_vars

\* two attempts in flight at once, each with its own entry
EachEntryOwnedByOneAttemptWitness ==
    /\ Len(attempts) = 2
    /\ attempts[1].item = "a"
    /\ attempts[1].pc = "getTasks"
    /\ attempts[2].item = "b"
    /\ attempts[2].pc = "startM4bEncoding"
    /\ encodingQueue = <<"a">>

-----------------------------------------------------------------------------
(* Properties of the session and of the scan *)

\* C21: in one process lifetime performInitialLibraryScan is started at most
\* once: a scan starts only when none is running and none has ended (a scan
\* that ended, in any way, has set initialScanPerformed).
ScanStartedAtMostOnce ==
    [][ Len(scans') > Len(scans) => (scans = <<>> /\ ~initialScanPerformed) ]_vars

\* C22: once shutdown() was called with entries in the queue (the process
\* keeps running), no reconnect timer is pending and no connection is being
\* opened, also after the close event of the socket that shutdown closed.
ReconnectStaysCancelledAfterShutdown ==
    (exitTimer /\ ~exited) =>
        /\ reconnectTimers = {}
        /\ reconnectTimeout = 0
        /\ ws # "CONNECTING"

\* C23: shutdown(), called by a signal handler, ends the process at once
\* exactly when the queue is empty; when it left the process running, the
\* process does not end while a dispatch scheduled by the scan has not run.
ShutdownExitsOnlyOnEmptyQueue ==
    [][ /\ Signal => (exited' <=> encodingQueue = <<>>)
        /\ ExitTimerFires => scanTimers = 0
      ]_vars

-----------------------------------------------------------------------------
(* Properties of the frames *)

\* C24: a ping frame received on an open socket is answered in the step that
\* handles it: the pong is the next frame sent on that socket, and the step
\* does nothing else (no other frame is handled, no other handler runs).
PongSentAtOnce ==
    [][ onMessage(ENGINE_IO_PACKET_PING) =>
            /\ ws = "OPEN" => sent' = Append(sent, ENGINE_IO_PACKET_PONG)
            /\ UNCHANGED << configVars, dispatchVars, scanVars, lookup, ws, handshake, openTimers,
                            reconnectTimeout, reconnectTimers, exitTimer, ignored >>
      ]_vars

\* a pong was sent, and the acknowledgement handled after it was answered too
PongSentAtOnceWitness ==
    /\ ws = "OPEN"
    /\ sent = <<NamespaceConnectFrame, ENGINE_IO_PACKET_PONG, AuthFrame, ENGINE_IO_PACKET_PONG>>

\* C25: without a shutdown, a socket that failed or closed, in whatever state
\* of the handshake, is followed by a new connection attempt (its listeners
\* are gone with this.ws once the close event is handled), and the process
\* is never ended.
ConnectionLossLeadsToReconnect ==
    /\ [](~exited)
    /\ (ws \in {"FAILED", "null"}) ~> (ws = "CONNECTING")
    /\ [][ SocketCloses => (ws' = "null" /\ reconnectTimeout' \in reconnectTimers') ]_vars

\* a second connection is being opened: an open packet was received on the
\* first one
ConnectionLossLeadsToReconnectWitness ==
    /\ ws = "CONNECTING"
    /\ handshake = "no"
    /\ ignored = "open packet"
    /\ reconnectTimers = {}

\* C26: on every socket the handshake is in order.  A frame is sent only on
\* the open socket this.ws refers to; the namespace-connect frame is the
\* first frame sent on it; the auth event is sent in the step that handles
\* the acknowledgement received on that socket, after the namespace-connect
\* frame went out on it.
HandshakeInOrder ==
    [][ Len(sent') > Len(sent) =>
            LET frame == sent'[Len(sent')] IN
            /\ ws = "OPEN"
            /\ sent' = Append(sent, frame)
            /\ frame = NamespaceConnectFrame => (sent = <<>> /\ handshake' = "sent")
            /\ frame = AuthFrame =>
                   /\ AckReceived
                   /\ handshake = "sent" /\ handshake' = "acked"
                   /\ sent[1] = NamespaceConnectFrame
      ]_vars

\* the handshake is through on a second connection: the scan of the first
\* acknowledgement has ended, the timer of another acknowledgement is pending
HandshakeInOrderWitness ==
    /\ ws = "OPEN"
    /\ handshake = "acked"
    /\ sent = <<NamespaceConnectFrame, AuthFrame>>
    /\ initialScanPerformed
    /\ ackTimers = 1

-----------------------------------------------------------------------------
(* Properties of the parser *)

\* an item is well formed: with a separator, both sides are non-empty and the
\* action has three fields; without one, the bare fallback has three fields
WellFormed(item) ==
    IF Len(ItemSides(item)) >= 2
    THEN /\ ItemSides(item)[1] # <<>>
         /\ ItemSides(item)[2] # <<>>
         /\ Len(split(ItemSides(item)[2], "|")) >= 3
    ELSE Len(split(item, "|")) >= 3

WellFormedItems == SelectSeq(DeclaredItems, WellFormed)

\* C27: parseConversionMatrix raises no error on a text with malformed items,
\* and returns what it returns for the well-formed items of the text alone,
\* in their order.
MalformedItemsSkipped ==
    /\ ~conversionMatrix.threw
    /\ conversionMatrix.map = parseRules(WellFormedItems, <<>>).map

-----------------------------------------------------------------------------
(* Properties of the event dispatcher *)

\* C28: an event frame whose body is not JSON, or not a non-empty array, is
\* dropped in onMessage: handleSocketIoEvent is not called, and the queue,
\* the counter, the timers, the socket and the frames sent stay as they are,
\* so that the frames after it are handled as if it had not come.
MalformedEventDropped ==
    [][ \A messageStr \in MalformedEventFrames :
            onMessage(messageStr) =>
                /\ ignored' \in {"not JSON", "not a non-empty array"}
                /\ UNCHANGED << configVars, dispatchVars, scanVars, lookup, ws, handshake,
                                openTimers, reconnectTimeout, reconnectTimers, exitTimer, sent >>
      ]_vars

\* a body that is no array was dropped on a socket with two entries queued,
\* whose handshake is through
MalformedEventDroppedWitness ==
    /\ ignored = "not a non-empty array"
    /\ Len(encodingQueue) = 2
    /\ ws = "OPEN"
    /\ handshake = "acked"

\* C29: an item_added event with an id appends the id at the tail of the
\* queue, whether it is queued already or not, and sets one settle timer,
\* starting no attempt itself; an item_added event without an id leaves the
\* queue, the counter, the attempts and the timers as they are.
ItemAddedAppendsOnce ==
    [][ /\ \A id \in ItemIds :
               onMessage(Event2(item_added, Member(idKey, Str(<<id>>)))) =>
                   /\ encodingQueue' = Append(encodingQueue, id)
                   /\ settleTimers' = settleTimers + 1
                   /\ UNCHANGED << runningEncodings, attempts, embedTimers, scanTimers, exited >>
        /\ \A messageStr \in ItemAddedWithoutIdFrames :
               onMessage(messageStr) =>
                   /\ ignored' = "item_added without id"
                   /\ UNCHANGED << encodingQueue, runningEncodings, attempts, settleTimers,
                                   embedTimers, scanTimers, exited >>
      ]_vars

\* the id "a" was added while it was queued, and an event without an id came
ItemAddedAppendsOnceWitness ==
    /\ encodingQueue = <<"a", "a">>
    /\ settleTimers = 2
    /\ itemsAdded = 3
    /\ ignored = "item_added without id"

\* C30: a task_finished event whose action is missing, is not a string or
\* does not contain "encode", and an event of any other name than item_added
\* and task_finished, leaves the counter and the queue as they are, starts no
\* attempt and schedules no embed request.
OtherEventsChangeNothing ==
    [][ /\ \A messageStr \in OtherTaskFinishedFrames :
               onMessage(messageStr) =>
                   /\ ignored' = "task_finished without encode"
                   /\ UNCHANGED << encodingQueue, runningEncodings, attempts, settleTimers,
                                   embedTimers, scanTimers, taskFinishedEvents, exited >>
        /\ \A messageStr \in OtherEventFrames :
               onMessage(messageStr) =>
                   /\ ignored' = "event name"
                   /\ UNCHANGED << encodingQueue, runningEncodings, attempts, settleTimers,
                                   embedTimers, scanTimers, taskFinishedEvents, exited >>
      ]_vars

\* a task_finished event of another job was the latest event ignored, while
\* the completion event of the encoding job waits and an entry is queued
OtherEventsChangeNothingWitness ==
    /\ ignored = "task_finished without encode"
    /\ runningEncodings = 1
    /\ taskFinishedEvents = 1
    /\ Len(encodingQueue) = 1
    /\ EMBED_METADATA
    /\ embedTimers = 0

-----------------------------------------------------------------------------
(* Properties of the bulk scan *)

\* C31: the bulk scan never inserts an id that is in the queue at the moment
\* of insertion. With no item_added event, no step puts a duplicate into a
\* queue without duplicates, and a resumption of a scan with the items of a
\* library that changes the queue keeps it as a prefix and appends, once each,
\* exactly the listed ids the queue did not hold, also when an id is listed
\* several times or by several libraries.
ScanInsertsOnlyNewIds ==
    [][ \/ encodingQueue' = encodingQueue
        \/ /\ Distinct(encodingQueue) => Distinct(encodingQueue')
           /\ \A k \in 1..Len(scans), items \in ItemLists :
                  GetLibraryItemsReturns(k, TRUE, items) =>
                      LET added == SubSeq(encodingQueue', Len(encodingQueue) + 1,
                                          Len(encodingQueue'))
                      IN  /\ Len(encodingQueue') > Len(encodingQueue)
                          /\ SubSeq(encodingQueue', 1, Len(encodingQueue)) = encodingQueue
                          /\ Distinct(added)
                          /\ Ids(added) = Ids(items) \ Ids(encodingQueue)
      ]_vars

\* two scans run at once: into a queue that held "a" from an event, the first
\* has enqueued "b" from its first library and awaits the items of its second
\* library, the other awaits the items of its first, with both ids queued
ScanInsertsOnlyNewIdsWitness ==
    /\ Len(scans) = 2
    /\ scans[1].pc = "getLibraryItems"
    /\ scans[1].libraries = <<>>
    /\ scans[1].itemsEnqueuedThisScan = 1
    /\ scans[2].pc = "getLibraryItems"
    /\ scans[2].itemsEnqueuedThisScan = 0
    /\ itemsAdded = 1
    /\ settleTimers = 1
    /\ encodingQueue = <<"a", "b">>

====
